---- MODULE Spec2Model ----
(***************************************************************************)
(* The tiered metrics storage of the Iris server: the per-agent ring       *)
(* cache (storage/cache.rs), the redb store with its cleanup operations    *)
(* (storage/persist.rs, storage/cleanup.rs) and the facade with its        *)
(* bounded write channel, batch writer task and shutdown (storage/mod.rs). *)
(*                                                                         *)
(* A sample (MetricsRequest) is a record [id, agent_id, timestamp,         *)
(* payload]: payload stands for hostname and system, and id is a ghost     *)
(* field naming the save call that carried the sample; it takes no part in *)
(* the comparisons the code makes (SameMetrics).                           *)
(***************************************************************************)
EXTENDS Integers, Sequences, FiniteSets, TLC

\* ------------------------------------------------------------------ bounds
Agents == {"a1", "a2"}
Timestamps == {1, 2}
Payloads == {"p", "q"}

VARIABLES
    config,           \* StorageConfig: [cache_size_per_agent, batch_size, channel_capacity]
    quota,            \* the number of save calls the run makes
    persist_enabled,  \* Storage.persist_enabled (persist.is_some())
    cache,            \* Cache.data: agent_id -> deque of samples
    write_tx,         \* Storage.write_tx: "absent" | "open" | "taken"
    running,          \* Storage.running
    chan,             \* the mpsc channel: sequence of WriteRequest
    writer,           \* batch_writer_task: "absent" | "loop" | "stopped" | "aborted"
    buffer,           \* batch_writer_task's buffer
    pending_acks,     \* batch_writer_task's pending_acks (call ids)
    acks,             \* the oneshot of each call: "unset" | "wait" | "ok" | "err" | "dropped"
    db,               \* the redb file: [metrics, agent_latest, key_sequence]
    calls,            \* the save calls made so far: [pc, metrics, sync, result] each,
                      \* with the ghost fields enqueued (its send put the request
                      \* on the channel), after (the calls whose enqueue was
                      \* complete when it started) and at_close (its sample was on
                      \* the channel or in the buffer when shutdown took the sender)
    sd,               \* Storage::shutdown: "idle" | "closed" | "stopping" | "done"
    restarted,        \* the process has been restarted on the same database file
    updates,          \* ghost: per agent, the samples given to Cache::update, in order
    committed,        \* ghost: ids of the samples a successful flush_batch inserted
    failed,           \* ghost: ids of the samples of a flush_batch that failed
    task,             \* the CleanupTask and its handle: [pc, running, config,
                      \* agent_ids], pc being "absent" | "select" | "count" | "age"
                      \* | "stopped" | "aborted", with the ghost fields passes
                      \* (execute_cleanup calls), errors (a store operation of the
                      \* task failed) and late (a per-agent deletion was started
                      \* after the stop flag was cleared)
    stream,           \* the task stream_metrics spawns: [pc, metrics, call, broadcast,
                      \* saved, results, end], pc being "absent" | "next" | "save" |
                      \* "wait" | "ended", broadcast the samples sent to the broadcast
                      \* channel, saved the calls of save_metrics_sync it made, results
                      \* what they returned, end why its loop ended
    cleaner           \* the cleanup operation under way on the store: [pc, op,
                      \* agent_id, keep_count, before_ts, agent_ids, keys, latest,
                      \* total_deleted], with the ghost fields runs (operations
                      \* started), pre (the store when the operation started) and
                      \* ret (what the last operation returned)

vars == <<config, quota, persist_enabled, cache, write_tx, running, chan, writer,
          buffer, pending_acks, acks, db, calls, sd, restarted, updates,
          committed, failed, cleaner, task, stream>>

CallIds == DOMAIN calls

\* ------------------------------------------------------------ sequences
Front(s) == SubSeq(s, 1, Len(s) - 1)
Last(s) == s[Len(s)]
Min(a, b) == IF a < b THEN a ELSE b
Range(s) == {s[i] : i \in DOMAIN s}

\* MetricsRequest's derived PartialEq: every field of the message.
SameMetrics(a, b) ==
    /\ a.agent_id = b.agent_id
    /\ a.timestamp = b.timestamp
    /\ a.payload = b.payload

\* ---------------------------------------------------------------- cache.rs
\* the eviction loop with pop_back in place of pop_front
RECURSIVE PopBackWhileOver(_, _)
PopBackWhileOver(entry, max_size) ==
    IF Len(entry) > max_size
    THEN PopBackWhileOver(SubSeq(entry, 1, Len(entry) - 1), max_size)
    ELSE entry

\* the eviction loop with >= in place of >
RECURSIVE PopFrontWhileAtCap(_, _)
PopFrontWhileAtCap(entry, max_size) ==
    IF entry # <<>> /\ Len(entry) >= max_size
    THEN PopFrontWhileAtCap(Tail(entry), max_size)
    ELSE entry

\* Cache::update's loop: while entry.len() > self.max_size { entry.pop_front(); }
RECURSIVE PopFrontWhileOver(_, _)
PopFrontWhileOver(entry, max_size) ==
    IF Len(entry) > max_size
    THEN PopFrontWhileOver(Tail(entry), max_size)
    ELSE entry

CacheEntry(data, agent_id) ==
    IF agent_id \in DOMAIN data THEN data[agent_id] ELSE <<>>

\* the save that leaves the ring cache as it is
CacheUpdate_Skip(data, max_size, m) == data

\* Cache::update
CacheUpdate(data, max_size, m) ==
    LET entry == Append(CacheEntry(data, m.agent_id), m)
    IN  [a \in (DOMAIN data) \cup {m.agent_id} |->
            IF a = m.agent_id THEN PopFrontWhileOver(entry, max_size) ELSE data[a]]

\* Cache::get_latest: <<>> is None, <<m>> is Some(m)
CacheGetLatest(data, agent_id) ==
    IF agent_id \in DOMAIN data /\ data[agent_id] # <<>>
    THEN <<Last(data[agent_id])>>
    ELSE <<>>

\* get_history taking the first limit samples of the deque
CacheGetHistory_Oldest(data, agent_id, limit) ==
    IF agent_id \in DOMAIN data
    THEN SubSeq(data[agent_id], 1, Min(limit, Len(data[agent_id])))
    ELSE <<>>

\* Cache::get_history
CacheGetHistory(data, agent_id, limit) ==
    IF agent_id \in DOMAIN data
    THEN LET entry == data[agent_id]
             len == Len(entry)
             start == IF len > limit THEN len - limit ELSE 0
         IN  SubSeq(entry, start + 1, len)
    ELSE <<>>

\* Cache::get_all_agents
CacheGetAllAgents(data) == DOMAIN data

\* -------------------------------------------------------------- persist.rs
\* A row of the metrics table is [agent_id, timestamp, nonce, value]: the key
\* "agent_id \0 timestamp (20 digits) \0 nonce" and the serialized sample.
\* The nonce (wall-clock nanoseconds, then KEY_SEQUENCE) grows with every key
\* that is made; key_sequence stands for the pair.
\* A key is held as [agent_id, timestamp, nonce], what make_key formats its
\* string from; KeyString gives the string.
\* the key without its nonce ("agent_id \0 timestamp")
make_key_NoNonce(agent_id, timestamp, seq) ==
    [agent_id |-> agent_id, timestamp |-> timestamp, nonce |-> 0]

\* PersistStorage::make_key
make_key(agent_id, timestamp, seq) ==
    [agent_id |-> agent_id, timestamp |-> timestamp, nonce |-> seq]

\* ---------------------------------------------- persist.rs: the key strings
\* A string is the sequence of the code points of its characters: the order
\* of &str is the order of the UTF-8 bytes, which is the order of the code
\* points. The characters the keys are made of:
NUL == 0
Minus == 45
Plus == 43
Zero == 48
Colon == 58
MaxChar == 1114111

\* the agent ids as strings
Chars(agent_id) ==
    CASE agent_id = "a1" -> <<97, 49>>
      [] agent_id = "a2" -> <<97, 50>>
      [] agent_id = "a" -> <<97>>
      [] agent_id = "ab" -> <<97, 98>>
      [] agent_id = "a-b" -> <<97, 45, 98>>
      [] agent_id = "a_b" -> <<97, 95, 98>>
      [] agent_id = "a.b" -> <<97, 46, 98>>
      [] agent_id = "a:b" -> <<97, 58, 98>>
      [] agent_id = "a/b" -> <<97, 47, 98>>
      [] agent_id = "a@b" -> <<97, 64, 98>>

\* the digits of n >= 0 in the given base (0-9, a-f)
RECURSIVE Numeral(_, _)
Numeral(n, base) ==
    IF n < base
    THEN <<IF n < 10 THEN Zero + n ELSE 87 + n>>
    ELSE Append(Numeral(n \div base, base),
                IF n % base < 10 THEN Zero + (n % base) ELSE 87 + (n % base))

\* the widest padding of the key format
Zeros == <<48, 48, 48, 48, 48, 48, 48, 48, 48, 48, 48, 48, 48, 48, 48, 48,
           48, 48, 48, 48, 48, 48, 48, 48, 48, 48, 48, 48, 48, 48, 48, 48>>

\* s padded with zeros on the left to width characters (a longer s is left as
\* it is)
PadLeft(s, width) ==
    IF Len(s) >= width THEN s ELSE SubSeq(Zeros, 1, width - Len(s)) \o s

\* the numeral of n >= 0, zero-padded to width characters
Digits(n, base, width) == PadLeft(Numeral(n, base), width)

\* format!("{:020}", timestamp): the zero flag pads after the sign
format_020(timestamp) ==
    IF timestamp < 0
    THEN <<Minus>> \o Digits(0 - timestamp, 10, 19)
    ELSE Digits(timestamp, 10, 20)

\* format!("{:020}", i64::MAX), that is 09223372036854775807
I64MaxDigits ==
    <<48, 57, 50, 50, 51, 51, 55, 50, 48, 51, 54, 56, 53, 52, 55, 55, 53, 56, 48, 55>>

\* the string of the key k:
\* format!("{}\0{:020}\0{:032x}{:016x}", agent_id, timestamp, now_nanos, seq),
\* nonce standing for the clock and for KEY_SEQUENCE
KeyString(k) ==
    Chars(k.agent_id) \o <<NUL>> \o format_020(k.timestamp) \o <<NUL>>
        \o Digits(k.nonce, 16, 32) \o Digits(k.nonce, 16, 16)



\* s < t for two strings
RECURSIVE LexLessFrom(_, _, _)
LexLessFrom(s, t, i) ==
    IF i > Len(t) THEN FALSE
    ELSE IF i > Len(s) THEN TRUE
    ELSE IF s[i] # t[i] THEN s[i] < t[i]
    ELSE LexLessFrom(s, t, i + 1)

LexLess(s, t) == LexLessFrom(s, t, 1)

\* the least index of ch in s, 0 if there is none
IndexOf(s, ch) ==
    IF \E i \in DOMAIN s : s[i] = ch
    THEN CHOOSE i \in DOMAIN s : s[i] = ch /\ \A j \in 1..(i - 1) : s[j] # ch
    ELSE 0

\* the greatest index of ch in s, 0 if there is none
LastIndexOf(s, ch) ==
    IF \E i \in DOMAIN s : s[i] = ch
    THEN CHOOSE i \in DOMAIN s : s[i] = ch /\ \A j \in (i + 1)..Len(s) : s[j] # ch
    ELSE 0

\* the value of a string of decimal digits
RECURSIVE DigitsValue(_)
DigitsValue(s) ==
    IF s = <<>> THEN 0 ELSE 10 * DigitsValue(Front(s)) + (Last(s) - Zero)

\* ts_str.parse::<i64>().ok(): an optional sign, then one digit at least and
\* digits only; <<>> is None
parse_i64(ts_str) ==
    LET signed == ts_str # <<>> /\ ts_str[1] \in {Minus, Plus}
        digits == IF signed THEN Tail(ts_str) ELSE ts_str
    IN  IF digits = <<>> \/ \E i \in DOMAIN digits : digits[i] \notin Zero..(Zero + 9)
        THEN <<>>
        ELSE IF signed /\ ts_str[1] = Minus THEN <<0 - DigitsValue(digits)>>
        ELSE <<DigitsValue(digits)>>

\* PersistStorage::parse_key: <<>> is None, <<[id, timestamp]>> is Some
parse_key(key) ==
    LET i == IndexOf(key, NUL)
        c == LastIndexOf(key, Colon)
    IN  IF i # 0
        THEN LET rest == SubSeq(key, i + 1, Len(key))
                 j == IndexOf(rest, NUL)
                 ts == parse_i64(IF j = 0 THEN rest ELSE SubSeq(rest, 1, j - 1))
             IN  IF ts = <<>> THEN <<>>
                 ELSE <<[id |-> SubSeq(key, 1, i - 1), timestamp |-> ts[1]]>>
        ELSE IF c # 0
        THEN LET ts == parse_i64(SubSeq(key, c + 1, Len(key)))
             IN  IF ts = <<>> THEN <<>>
                 ELSE <<[id |-> SubSeq(key, 1, c - 1), timestamp |-> ts[1]]>>
        ELSE <<>>

\* PersistStorage::make_key_range
make_key_range(agent_id) ==
    [start |-> Chars(agent_id) \o <<NUL>>,
     end |-> Chars(agent_id) \o <<NUL>> \o I64MaxDigits \o <<MaxChar>>]

KeyOf(r) == [agent_id |-> r.agent_id, timestamp |-> r.timestamp, nonce |-> r.nonce]

\* The order of two keys in the table: the order of their strings.
KeyLess(k1, k2) == LexLess(KeyString(k1), KeyString(k2))

RECURSIVE InKeyOrder(_)
InKeyOrder(rows) ==
    IF rows = {} THEN <<>>
    ELSE LET first == CHOOSE r \in rows :
                          \A q \in rows \ {r} : KeyLess(KeyOf(r), KeyOf(q))
         IN  <<first>> \o InKeyOrder(rows \ {first})

\* table.range(start..end) for make_key_range(agent_id): the rows whose key
\* is in the range and is parsed, each with the timestamp parse_key gives
TableRange(metrics, agent_id) ==
    LET range == make_key_range(agent_id)
        key(r) == KeyString(KeyOf(r))
    IN  {[r EXCEPT !.timestamp = parse_key(key(r))[1].timestamp] :
            r \in {q \in metrics : /\ ~LexLess(key(q), range.start)
                                   /\ LexLess(key(q), range.end)
                                   /\ parse_key(key(q)) # <<>>}}

\* the scan taking every row whose key starts with the agent id
RangeScan_Prefix(metrics, agent_id) ==
    InKeyOrder({r \in metrics :
                   LET key == KeyString(KeyOf(r))
                       id == Chars(agent_id)
                   IN  Len(key) >= Len(id) /\ SubSeq(key, 1, Len(id)) = id})

\* The loop over the range in get_latest_metrics, query_latest_by_agent and
\* delete_old_records: the rows of the range, in key order, whose parsed id
\* is agent_id.
RangeScan(metrics, agent_id) ==
    InKeyOrder({r \in TableRange(metrics, agent_id) :
                   parse_key(KeyString(KeyOf(r)))[1].id = Chars(agent_id)})

\* the iteration writing agent_latest whatever entry is stored
InsertMetrics_AlwaysUpdate(d, m) ==
    LET key == make_key(m.agent_id, m.timestamp, d.key_sequence)
    IN  [metrics |-> {r \in d.metrics : KeyOf(r) # key} \cup
                     {[agent_id |-> key.agent_id, timestamp |-> key.timestamp,
                       nonce |-> key.nonce, value |-> m]},
         agent_latest |->
             [a \in (DOMAIN d.agent_latest) \cup {m.agent_id} |->
                 IF a = m.agent_id THEN m.timestamp ELSE d.agent_latest[a]],
         key_sequence |-> d.key_sequence + 1]

\* One iteration of flush_batch's loop: table.insert puts the row in place of
\* any row with the same key; agent_latest is raised.
InsertMetrics(d, m) ==
    LET key == make_key(m.agent_id, m.timestamp, d.key_sequence)
        should_update ==
            IF m.agent_id \in DOMAIN d.agent_latest
            THEN m.timestamp > d.agent_latest[m.agent_id]
            ELSE TRUE
    IN  [metrics |-> {r \in d.metrics : KeyOf(r) # key} \cup
                     {[agent_id |-> key.agent_id, timestamp |-> key.timestamp,
                       nonce |-> key.nonce, value |-> m]},
         agent_latest |->
             IF should_update
             THEN [a \in (DOMAIN d.agent_latest) \cup {m.agent_id} |->
                      IF a = m.agent_id THEN m.timestamp ELSE d.agent_latest[a]]
             ELSE d.agent_latest,
         key_sequence |-> d.key_sequence + 1]

\* the loop of flush_batch going through the batch from its end
RECURSIVE InsertAll_Reversed(_, _)
InsertAll_Reversed(d, batch) ==
    IF batch = <<>> THEN d
    ELSE InsertAll_Reversed(InsertMetrics(d, Last(batch)), Front(batch))

RECURSIVE InsertAll(_, _)
InsertAll(d, batch) ==
    IF batch = <<>> THEN d
    ELSE InsertAll(InsertMetrics(d, Head(batch)), Tail(batch))

\* bincode::serialize(&m) gives Ok: the payload "bad" stands for a sample that
\* cannot be serialized
Serializable(m) == m.payload # "bad"

\* PersistStorage::flush_batch. io_ok is the outcome of the write transaction
\* (begin_write, insert, commit); "bincode::serialize(&m)?" leaves the closure
\* at the first sample that cannot be serialized. A failure commits nothing.
flush_batch(d, batch, io_ok) ==
    IF batch = <<>> THEN [ok |-> TRUE, db |-> d]
    ELSE IF io_ok /\ \A i \in DOMAIN batch : Serializable(batch[i])
    THEN [ok |-> TRUE, db |-> InsertAll(d, batch)]
    ELSE [ok |-> FALSE, db |-> d]

\* Vec::sort_by_key(|m| m.timestamp): a stable sort.
RECURSIVE InsertByTimestamp(_, _)
InsertByTimestamp(sorted, m) ==
    IF sorted = <<>> THEN <<m>>
    ELSE IF Last(sorted).timestamp <= m.timestamp THEN Append(sorted, m)
    ELSE Append(InsertByTimestamp(Front(sorted), m), Last(sorted))

RECURSIVE sort_by_timestamp(_)
sort_by_timestamp(s) ==
    IF s = <<>> THEN <<>>
    ELSE InsertByTimestamp(sort_by_timestamp(Front(s)), Last(s))

\* results[results.len() - limit..] when results.len() > limit
LastN(s, limit) ==
    IF Len(s) > limit THEN SubSeq(s, Len(s) - limit + 1, Len(s)) ELSE s

\* PersistStorage::query_latest_by_agent (the table holds no old-format key)
query_latest_by_agent(d, agent_id, limit) ==
    IF limit = 0 THEN <<>>
    ELSE LET scan == RangeScan(d.metrics, agent_id)
             results == [i \in 1..Len(scan) |-> scan[i].value]
         IN  LastN(sort_by_timestamp(results), limit)

\* PersistStorage::get_latest_metrics: <<>> is None
get_latest_metrics(d, agent_id) ==
    LET scan == RangeScan(d.metrics, agent_id)
    IN  IF scan = <<>> THEN <<>>
        ELSE LET best == CHOOSE i \in 1..Len(scan) :
                     /\ \A j \in 1..Len(scan) : scan[j].timestamp <= scan[i].timestamp
                     /\ \A j \in (i + 1)..Len(scan) : scan[j].timestamp < scan[i].timestamp
             IN  <<scan[best].value>>

\* PersistStorage::get_all_agent_ids
get_all_agent_ids(d) == DOMAIN d.agent_latest

\* ------------------------------------------------ persist.rs: the cleanup
\* table.remove(key) for every key of keys, in one write transaction
RemoveKeys(d, keys) ==
    [d EXCEPT !.metrics = {r \in d.metrics : KeyOf(r) \notin keys}]

\* The write transaction on agent_latest that ends a cleanup of agent_id:
\* insert(agent_id, ts) for latest = <<ts>>, remove(agent_id) for <<>>.
SetLatest(d, agent_id, latest) ==
    [d EXCEPT !.agent_latest =
        IF latest = <<>>
        THEN [a \in (DOMAIN d.agent_latest) \ {agent_id} |-> d.agent_latest[a]]
        ELSE [a \in (DOMAIN d.agent_latest) \cup {agent_id} |->
                 IF a = agent_id THEN latest[1] ELSE d.agent_latest[a]]]

\* records.sort_by(|a, b| a.0.cmp(&b.0).then_with(|| a.1.cmp(&b.1))): by
\* timestamp, then by key string
RECURSIVE SortRecords(_)
SortRecords(rows) ==
    IF rows = {} THEN <<>>
    ELSE LET first == CHOOSE r \in rows : \A q \in rows \ {r} :
                          \/ r.timestamp < q.timestamp
                          \/ /\ r.timestamp = q.timestamp
                             /\ KeyLess(KeyOf(r), KeyOf(q))
         IN  <<first>> \o SortRecords(rows \ {first})

\* delete_old_records' read transactions: the agent's records sorted by
\* (timestamp, key), the keys of the first total - keep_count of them, and
\* the timestamp of the last record (skip: total <= keep_count, return Ok(0)).
ScanOldRecords(d, agent_id, keep_count) ==
    LET records == SortRecords(Range(RangeScan(d.metrics, agent_id)))
        total == Len(records)
        delete_count == total - keep_count
    IN  IF total <= keep_count
        THEN [skip |-> TRUE, keys |-> {}, latest |-> <<>>]
        ELSE [skip |-> FALSE,
              keys |-> {KeyOf(records[i]) : i \in 1..delete_count},
              latest |-> IF delete_count < total
                         THEN <<records[total].timestamp>>
                         ELSE <<>>]

\* PersistStorage::delete_old_records run without interruption
delete_old_records(d, agent_id, keep_count) ==
    LET scan == ScanOldRecords(d, agent_id, keep_count)
    IN  IF scan.skip THEN [db |-> d, ret |-> 0]
        ELSE [db |-> SetLatest(RemoveKeys(d, scan.keys), agent_id, scan.latest),
              ret |-> Cardinality(scan.keys)]

\* The order of the agent ids (the key order of agent_latest, and Vec::sort).
AgentOrder == <<"a1", "a2">>

SortAgents(ids) == SelectSeq(AgentOrder, LAMBDA a : a \in ids)

\* delete_before_timestamp's read transaction for one agent: the keys with
\* ts < before_ts, and the greatest timestamp among the other rows.
ScanBefore(d, agent_id, before_ts) ==
    LET rows == TableRange(d.metrics, agent_id)
        rest == {r \in rows : ~(r.timestamp < before_ts)}
    IN  [keys |-> {KeyOf(r) : r \in {q \in rows : q.timestamp < before_ts}},
         latest |-> IF rest = {} THEN <<>>
                    ELSE <<CHOOSE t \in {r.timestamp : r \in rest} :
                              \A r \in rest : r.timestamp <= t>>]

\* delete_before_timestamp's loop over agent_ids, run without interruption
RECURSIVE DeleteBeforeLoop(_, _, _, _)
DeleteBeforeLoop(d, agent_ids, before_ts, total_deleted) ==
    IF agent_ids = <<>> THEN [db |-> d, ret |-> total_deleted]
    ELSE LET scan == ScanBefore(d, Head(agent_ids), before_ts)
         IN  DeleteBeforeLoop(SetLatest(RemoveKeys(d, scan.keys), Head(agent_ids),
                                        scan.latest),
                              Tail(agent_ids), before_ts,
                              total_deleted + Cardinality(scan.keys))

\* PersistStorage::delete_before_timestamp run without interruption
delete_before_timestamp(d, before_ts) ==
    DeleteBeforeLoop(d, SortAgents(DOMAIN d.agent_latest), before_ts, 0)

\* ------------------------------------------------ cleanup.rs: the cutoff
\* retention_days.saturating_mul(86400)
SecondsPerDay == 86400

\* execute_cleanup: now.saturating_sub(retention_days * 86400), now in seconds
cutoff_ts(now, retention_days) == now - retention_days * SecondsPerDay

\* ------------------------------------------------------- mod.rs: the reads
\* Vec::dedup_by(|a, b| a.timestamp == b.timestamp && a == b): an element equal
\* to the one kept before it is removed.
RECURSIVE dedup_by(_)
dedup_by(s) ==
    IF Len(s) <= 1 THEN s
    ELSE LET kept == dedup_by(Front(s))
         IN  IF Last(s).timestamp = Last(kept).timestamp /\ SameMetrics(Last(s), Last(kept))
             THEN kept
             ELSE Append(kept, Last(s))

\* Storage::get_all_agents (read_ok: the store's read succeeded): the keys of
\* the ring cache and the keys of agent_latest in a HashSet, then sorted
get_all_agents(data, d, has_persist, read_ok) ==
    SortAgents(CacheGetAllAgents(data) \cup
               (IF has_persist /\ read_ok THEN get_all_agent_ids(d) ELSE {}))

\* Storage::get_agent_latest (read_ok: the store's read succeeded)
get_agent_latest(data, d, has_persist, agent_id, read_ok) ==
    LET cache_latest == CacheGetLatest(data, agent_id)
    IN  IF cache_latest # <<>> THEN cache_latest
        ELSE IF has_persist /\ read_ok THEN get_latest_metrics(d, agent_id)
        ELSE <<>>

\* get_agent_history answering from the ring cache whenever it holds anything
get_agent_history_CacheFirst(data, d, has_persist, agent_id, limit, read_ok) ==
    IF limit = 0 THEN <<>>
    ELSE LET cache_history == CacheGetHistory(data, agent_id, limit)
         IN  IF ~has_persist \/ cache_history # <<>> \/ ~read_ok THEN cache_history
             ELSE query_latest_by_agent(d, agent_id, limit)

\* Storage::get_agent_history (read_ok: the store's read succeeded)
get_agent_history(data, d, has_persist, agent_id, limit, read_ok) ==
    IF limit = 0 THEN <<>>
    ELSE LET cache_history == CacheGetHistory(data, agent_id, limit)
         IN  IF ~has_persist THEN cache_history
             ELSE IF Len(cache_history) >= limit THEN cache_history
             ELSE IF ~read_ok THEN cache_history
             ELSE LET persisted == query_latest_by_agent(d, agent_id, limit)
                  IN  IF persisted = <<>> THEN cache_history
                      ELSE LastN(dedup_by(sort_by_timestamp(persisted \o cache_history)),
                                 limit)

\* ------------------------------------------------- mod.rs: the batch writer
\* acks with the oneshot of every call id in ids set to v (ack.send(v), or the
\* sender dropped)
Signal(ak, ids, v) == [c \in DOMAIN ak |-> IF c \in ids THEN v ELSE ak[c]]

Ids(samples) == {samples[i].id : i \in DOMAIN samples}

\* The oneshot senders the requests still queued on the channel carry.
QueuedAcks(ch) == {ch[i].metrics.id : i \in {j \in DOMAIN ch : ch[j].ack}}

\* The samples on the channel or in the writer's buffer.
Queued(ch, buf) == {ch[i].metrics.id : i \in DOMAIN ch} \cup Ids(buf)

\* flush_buffer with the acks signalled Ok whatever flush_batch returned
flush_buffer_AckAlways(d, buf, pend, ak, io_ok) ==
    IF buf = <<>>
    THEN [ret |-> TRUE, db |-> d, buffer |-> buf, pending_acks |-> pend, acks |-> ak]
    ELSE LET r == flush_batch(d, buf, io_ok)
         IN  [ret |-> r.ok, db |-> r.db, buffer |-> IF r.ok THEN <<>> ELSE buf,
              pending_acks |-> <<>>, acks |-> Signal(ak, Range(pend), "ok")]

\* flush_buffer clearing the buffer after a failed flush_batch as well
flush_buffer_ClearOnError(d, buf, pend, ak, io_ok) ==
    IF buf = <<>>
    THEN [ret |-> TRUE, db |-> d, buffer |-> buf, pending_acks |-> pend, acks |-> ak]
    ELSE LET r == flush_batch(d, buf, io_ok)
         IN  IF r.ok
             THEN [ret |-> TRUE, db |-> r.db, buffer |-> <<>>, pending_acks |-> <<>>,
                   acks |-> Signal(ak, Range(pend), "ok")]
             ELSE [ret |-> FALSE, db |-> d, buffer |-> <<>>, pending_acks |-> pend,
                   acks |-> ak]

\* flush_buffer leaving the buffer as it is after a successful flush_batch
flush_buffer_KeepBuffer(d, buf, pend, ak, io_ok) ==
    IF buf = <<>>
    THEN [ret |-> TRUE, db |-> d, buffer |-> buf, pending_acks |-> pend, acks |-> ak]
    ELSE LET r == flush_batch(d, buf, io_ok)
         IN  IF r.ok
             THEN [ret |-> TRUE, db |-> r.db, buffer |-> buf, pending_acks |-> <<>>,
                   acks |-> Signal(ak, Range(pend), "ok")]
             ELSE [ret |-> FALSE, db |-> d, buffer |-> buf, pending_acks |-> pend,
                   acks |-> ak]

\* flush_buffer signalling the acks without draining them
flush_buffer_KeepAcks(d, buf, pend, ak, io_ok) ==
    IF buf = <<>>
    THEN [ret |-> TRUE, db |-> d, buffer |-> buf, pending_acks |-> pend, acks |-> ak]
    ELSE LET r == flush_batch(d, buf, io_ok)
         IN  IF r.ok
             THEN [ret |-> TRUE, db |-> r.db, buffer |-> <<>>, pending_acks |-> pend,
                   acks |-> Signal(ak, Range(pend), "ok")]
             ELSE [ret |-> FALSE, db |-> d, buffer |-> buf, pending_acks |-> pend,
                   acks |-> ak]

\* Storage::flush_buffer
flush_buffer(d, buf, pend, ak, io_ok) ==
    IF buf = <<>>
    THEN [ret |-> TRUE, db |-> d, buffer |-> buf, pending_acks |-> pend, acks |-> ak]
    ELSE LET r == flush_batch(d, buf, io_ok)
         IN  IF r.ok
             THEN [ret |-> TRUE, db |-> r.db, buffer |-> <<>>, pending_acks |-> <<>>,
                   acks |-> Signal(ak, Range(pend), "ok")]
             ELSE [ret |-> FALSE, db |-> d, buffer |-> buf, pending_acks |-> pend,
                   acks |-> ak]

\* the timeout branch flushing only a buffer that has reached batch_size
tick_flush_WhenFull(d, buf, pend, ak, io_ok) ==
    IF Len(buf) >= config.batch_size
    THEN flush_buffer(d, buf, pend, ak, io_ok)
    ELSE [ret |-> TRUE, db |-> d, buffer |-> buf, pending_acks |-> pend, acks |-> ak]

\* batch_writer_task's timeout branch: if !buffer.is_empty() { flush_buffer(..) }
tick_flush(d, buf, pend, ak, io_ok) ==
    IF buf # <<>>
    THEN flush_buffer(d, buf, pend, ak, io_ok)
    ELSE [ret |-> TRUE, db |-> d, buffer |-> buf, pending_acks |-> pend, acks |-> ak]

\* batch_writer_task after its loop: the last flush, the error for the acks of
\* a failed last flush, and the end of the task, which drops the receiver with
\* the requests still queued on it.
WriterExit(d, buf, pend, ak, ch, io_ok) ==
    LET r == flush_buffer(d, buf, pend, ak, io_ok)
        after == IF buf # <<>> /\ ~r.ret
                 THEN Signal(r.acks, Range(r.pending_acks), "err")
                 ELSE r.acks
    IN  [ret |-> r.ret, db |-> r.db,
         acks |-> Signal(after, QueuedAcks(ch), "dropped")]

\* ghost bookkeeping of one flush attempt on buf
Committed(buf, ret) == IF ret THEN committed \cup Ids(buf) ELSE committed
Failed(buf, ret) == IF ret THEN failed ELSE failed \cup Ids(buf)

\* Every Sender clone is gone and nothing is queued: rx.recv() gives None.
\* A call between its read of write_tx and the end of its send holds a clone.
ChannelClosed ==
    /\ write_tx = "taken"
    /\ \A c \in CallIds : calls[c].pc # "send"

\* ----------------------------------------------------------------- Init
EmptyDb == [metrics |-> {}, agent_latest |-> <<>>, key_sequence |-> 0]

\* enable_cleanup is false, or there is no store: no CleanupTask is spawned
NoTask ==
    [pc |-> "absent", running |-> FALSE,
     config |-> [max_records_per_agent |-> 0, retention_days |-> 0],
     agent_ids |-> <<>>, passes |-> 0, errors |-> FALSE, late |-> FALSE]

\* CleanupTask::new and tokio::spawn(cleanup_task.run()): the flag is set and
\* the task is at its select!
SpawnedTask(max_records_per_agent, retention_days) ==
    [NoTask EXCEPT !.pc = "select", !.running = TRUE,
                   !.config = [max_records_per_agent |-> max_records_per_agent,
                               retention_days |-> retention_days]]

\* no stream_metrics call was made
NoStream ==
    [pc |-> "absent", metrics |-> <<>>, call |-> 0, broadcast |-> <<>>,
     saved |-> <<>>, results |-> <<>>, end |-> "none"]

\* no cleanup operation has run
IdleCleaner ==
    [pc |-> "idle", op |-> "none", agent_id |-> "none", keep_count |-> 0,
     before_ts |-> 0, agent_ids |-> <<>>, keys |-> {}, latest |-> <<>>,
     total_deleted |-> 0, runs |-> 0, pre |-> EmptyDb, ret |-> 0]

\* with_config: the fields of Storage, the tasks it spawns and the new
\* database file, for a store that was opened (persist) or not
StartStorage(persist, n_calls, enable_cleanup, max_records_per_agent, retention_days) ==
    /\ quota = n_calls
    /\ persist_enabled = persist
    /\ cache = <<>>
    /\ write_tx = IF persist_enabled THEN "open" ELSE "absent"
    /\ running = TRUE
    /\ chan = <<>>
    /\ writer = IF persist_enabled THEN "loop" ELSE "absent"
    /\ buffer = <<>>
    /\ pending_acks = <<>>
    /\ acks = <<>>
    /\ db = EmptyDb
    /\ calls = <<>>
    /\ sd = "idle"
    /\ restarted = FALSE
    /\ updates = [a \in Agents |-> <<>>]
    /\ committed = {}
    /\ failed = {}
    /\ cleaner = IdleCleaner
    /\ stream = NoStream
    /\ task = IF persist /\ enable_cleanup
              THEN SpawnedTask(max_records_per_agent, retention_days)
              ELSE NoTask

\* Storage::with_config on a new database file (persist) or without db_path;
\* the cleanup task is spawned only with a store and enable_cleanup
InitStorage(persist, cache_size, batch, capacity, n_calls, enable_cleanup, max_records_per_agent, retention_days) ==
    /\ config = [cache_size_per_agent |-> cache_size, batch_size |-> batch,
                 channel_capacity |-> capacity]
    /\ StartStorage(persist, n_calls, enable_cleanup, max_records_per_agent, retention_days)

\* with_config with enable_cleanup = false
InitWith(persist, cache_size, batch, capacity, n_calls) ==
    InitStorage(persist, cache_size, batch, capacity, n_calls, FALSE, 0, 0)

\* ------------------------------------------------- mod.rs: the save calls
Finish(c, res) == [calls EXCEPT ![c].pc = "done", ![c].result = res]

\* save_metrics / save_metrics_sync up to cache.update(metrics.clone()).await
\* (what its caller does is the caller's: stream is left to it)
SaveMetrics(sync, agent_id, timestamp, payload) ==
    /\ Len(calls) < quota
    /\ LET m == [id |-> Len(calls) + 1, agent_id |-> agent_id, timestamp |-> timestamp,
                 payload |-> payload]
       IN  /\ cache' = CacheUpdate(cache, config.cache_size_per_agent, m)
           /\ updates' = [updates EXCEPT ![agent_id] = Append(@, m)]
           /\ calls' = Append(calls, [pc |-> "enqueue", sync |-> sync,
                                      result |-> "none", metrics |-> m,
                                      enqueued |-> FALSE,
                                      after |-> {c \in CallIds : calls[c].enqueued},
                                      at_close |-> FALSE])
    /\ acks' = Append(acks, "unset")
    /\ UNCHANGED <<task, cleaner, config, quota, persist_enabled, write_tx, running, chan, writer,
                   buffer, pending_acks, db, sd, restarted, committed, failed>>

\* enqueue_metrics without a sender returning Ok(()) always
NoSender_AlwaysOk(persist) == "ok"

\* enqueue_metrics without a sender returning the queue-closed error always
NoSender_AlwaysClosed(persist) == "err"

\* enqueue_metrics without a sender: "persistence queue is closed" with a
\* store, Ok(()) without one
NoSender(persist) == IF persist THEN "err" ELSE "ok"

\* enqueue_metrics: tx_lock.read().await.clone(), and the return without a sender
EnqueueReadTx(c) ==
    /\ calls[c].pc = "enqueue"
    /\ calls' = IF write_tx = "open"
                THEN [calls EXCEPT ![c].pc = "send"]
                ELSE Finish(c, NoSender(persist_enabled))
    /\ UNCHANGED <<stream, task, cleaner, config, quota, persist_enabled, cache, write_tx, running, chan, writer, buffer,
                   pending_acks, acks, db, sd, restarted, updates,
                   committed, failed>>

\* tx.send(..).await can complete: the receiver is gone, or there is capacity
CanSend == writer # "loop" \/ Len(chan) < config.channel_capacity

\* enqueue_metrics: tx.send(WriteRequest { metrics, ack }).await
EnqueueSend(c) ==
    /\ calls[c].pc = "send"
    /\ CanSend
    /\ IF writer # "loop"
       THEN /\ calls' = Finish(c, "err")
            /\ UNCHANGED <<chan, acks>>
       ELSE /\ chan' = Append(chan, [metrics |-> calls[c].metrics, ack |-> calls[c].sync])
            /\ IF calls[c].sync
               THEN /\ calls' = [calls EXCEPT ![c].pc = "ack", ![c].enqueued = TRUE]
                    /\ acks' = [acks EXCEPT ![c] = "wait"]
               ELSE /\ calls' = [Finish(c, "ok") EXCEPT ![c].enqueued = TRUE]
                    /\ UNCHANGED acks
    /\ UNCHANGED <<stream, task, cleaner, config, quota, persist_enabled, cache, write_tx, running, writer, buffer,
                   pending_acks, db, sd, restarted, updates, committed,
                   failed>>

\* enqueue_metrics: rx.await on the oneshot
EnqueueAwaitAck(c) ==
    /\ calls[c].pc = "ack"
    /\ acks[c] \in {"ok", "err", "dropped"}
    /\ calls' = Finish(c, IF acks[c] = "ok" THEN "ok" ELSE "err")
    /\ UNCHANGED <<stream, task, cleaner, config, quota, persist_enabled, cache, write_tx, running, chan, writer, buffer,
                   pending_acks, acks, db, sd, restarted, updates,
                   committed, failed>>

\* the receive branch without the flush of a full buffer
WriterRecv_NoSizeTrigger(io_ok) ==
    /\ writer = "loop"
    /\ chan # <<>>
    /\ LET req == Head(chan)
       IN  /\ chan' = Tail(chan)
           /\ buffer' = Append(buffer, req.metrics)
           /\ pending_acks' = IF req.ack THEN Append(pending_acks, req.metrics.id)
                                         ELSE pending_acks
    /\ UNCHANGED <<stream, task, cleaner, config, quota, persist_enabled, cache, write_tx, running, writer, calls,
                   sd, restarted, updates, acks, db, committed, failed>>

\* --------------------------------------------- batch_writer_task's branches
\* rx.recv() gives Some(req)
WriterRecv(io_ok) ==
    /\ writer = "loop"
    /\ chan # <<>>
    /\ LET req == Head(chan)
           buf == Append(buffer, req.metrics)
           pend == IF req.ack THEN Append(pending_acks, req.metrics.id) ELSE pending_acks
           r == IF Len(buf) >= config.batch_size
                THEN flush_buffer(db, buf, pend, acks, io_ok)
                ELSE [ret |-> TRUE, db |-> db, buffer |-> buf, pending_acks |-> pend,
                      acks |-> acks]
       IN  /\ chan' = Tail(chan)
           /\ buffer' = r.buffer
           /\ pending_acks' = r.pending_acks
           /\ acks' = r.acks
           /\ db' = r.db
           /\ committed' = IF Len(buf) >= config.batch_size THEN Committed(buf, r.ret) ELSE committed
           /\ failed' = IF Len(buf) >= config.batch_size THEN Failed(buf, r.ret) ELSE failed
    /\ UNCHANGED <<stream, task, cleaner, config, quota, persist_enabled, cache, write_tx, running, writer, calls,
                   sd, restarted, updates>>

\* rx.recv() gives None: break, the last flush, the task ends
WriterRecvNone(io_ok) ==
    /\ writer = "loop"
    /\ chan = <<>>
    /\ ChannelClosed
    /\ LET x == WriterExit(db, buffer, pending_acks, acks, chan, io_ok)
       IN  /\ db' = x.db
           /\ acks' = x.acks
           /\ committed' = IF buffer # <<>> THEN Committed(buffer, x.ret) ELSE committed
           /\ failed' = IF buffer # <<>> THEN Failed(buffer, x.ret) ELSE failed
    /\ writer' = "stopped"
    /\ buffer' = <<>>
    /\ pending_acks' = <<>>
    /\ UNCHANGED <<stream, task, cleaner, config, quota, persist_enabled, cache, write_tx, running, chan, calls,
                   sd, restarted, updates>>

\* interval.tick(): the timeout flush, then the running check; io_ok2 is the
\* outcome of the last flush when the task leaves its loop here
WriterTick(io_ok, io_ok2) ==
    /\ writer = "loop"
    /\ LET r == tick_flush(db, buffer, pending_acks, acks, io_ok)
           x == WriterExit(r.db, r.buffer, r.pending_acks, r.acks, chan, io_ok2)
           c1 == IF r.buffer = <<>> THEN Committed(buffer, TRUE) ELSE committed
           f1 == IF r.buffer # <<>> /\ ~r.ret THEN Failed(buffer, FALSE) ELSE failed
       IN  IF running
           THEN /\ db' = r.db
                /\ buffer' = r.buffer
                /\ pending_acks' = r.pending_acks
                /\ acks' = r.acks
                /\ committed' = c1
                /\ failed' = f1
                /\ UNCHANGED <<writer, chan>>
           ELSE /\ db' = x.db
                /\ acks' = x.acks
                /\ committed' = IF x.ret THEN c1 \cup Ids(r.buffer) ELSE c1
                /\ failed' = IF x.ret THEN f1 ELSE f1 \cup Ids(r.buffer)
                /\ writer' = "stopped"
                /\ buffer' = <<>>
                /\ pending_acks' = <<>>
                /\ chan' = <<>>
    /\ UNCHANGED <<stream, task, cleaner, config, quota, persist_enabled, cache, write_tx, running, calls, sd,
                   restarted, updates>>

\* ------------------------------------------------------ Storage::shutdown
\* shutdown sets cleanup_running to false (there is a cleanup task)
ShutdownStopCleaner ==
    /\ sd = "idle"
    /\ persist_enabled
    /\ task.pc # "absent"
    /\ task' = [task EXCEPT !.running = FALSE]
    /\ sd' = "cleaner"
    /\ UNCHANGED <<stream, cleaner, config, quota, persist_enabled, cache, write_tx, running, chan,
                   writer, buffer, pending_acks, acks, db, calls, restarted, updates,
                   committed, failed>>

\* tokio::time::timeout over a loop polling is_finished(): Ok when the task
\* has finished, Err(Elapsed) after the bounded wait otherwise
timeout_Forever(finished) == IF finished THEN "Ok" ELSE "Pending"

timeout(finished) == IF finished THEN "Ok" ELSE "Elapsed"

\* the poll loop sees cleanup_handle.is_finished()
ShutdownCleanerFinished ==
    /\ sd = "cleaner"
    /\ timeout(task.pc = "stopped") = "Ok"
    /\ sd' = "cleaned"
    /\ UNCHANGED <<stream, task, cleaner, config, quota, persist_enabled, cache, write_tx, running,
                   chan, writer, buffer, pending_acks, acks, db, calls, restarted,
                   updates, committed, failed>>

\* the 5 s wait times out: cleanup_abort.abort(). The task is cancelled at the
\* await it is at; a store operation it is waiting for (in_op) runs on the
\* blocking pool and still completes.
ShutdownAbortCleaner(in_op, now) ==
    /\ sd = "cleaner"
    /\ timeout(task.pc = "stopped") = "Elapsed"
    /\ in_op => task.pc \in {"count", "age"}
    /\ db' = IF ~in_op THEN db
             ELSE IF task.pc = "count"
             THEN delete_old_records(db, Head(task.agent_ids),
                                     task.config.max_records_per_agent).db
             ELSE delete_before_timestamp(
                      db, cutoff_ts(now, task.config.retention_days)).db
    /\ task' = [task EXCEPT !.pc = "aborted", !.agent_ids = <<>>]
    /\ sd' = "cleaned"
    /\ UNCHANGED <<stream, cleaner, config, quota, persist_enabled, cache, write_tx, running, chan,
                   writer, buffer, pending_acks, acks, calls, restarted, updates,
                   committed, failed>>

\* shutdown closing the channel with the cleanup task still untouched
BeforeCloseChannel_CleanerLater == sd = "idle"

\* shutdown is at "if let Some(tx_lock) = &self.write_tx": the cleanup task, if
\* there is one, has been stopped and waited for
BeforeCloseChannel == sd = (IF task.pc = "absent" THEN "idle" ELSE "cleaned")

\* the channel's sender is taken and dropped (nothing to do without persistence)
ShutdownCloseChannel ==
    /\ BeforeCloseChannel
    /\ IF persist_enabled
       THEN write_tx' = "taken" /\ sd' = "closed"
       ELSE UNCHANGED write_tx /\ sd' = "done"
    /\ calls' = [c \in CallIds |->
                    [calls[c] EXCEPT !.at_close = c \in Queued(chan, buffer)]]
    /\ UNCHANGED <<stream, task, cleaner, config, quota, persist_enabled, cache, running, chan, writer, buffer,
                   pending_acks, acks, db, restarted, updates,
                   committed, failed>>

\* *self.running.write().await = false
ShutdownStopRunning ==
    /\ sd = "closed"
    /\ running' = FALSE
    /\ sd' = "stopping"
    /\ UNCHANGED <<stream, task, cleaner, config, quota, persist_enabled, cache, write_tx, chan, writer, buffer,
                   pending_acks, acks, db, calls, restarted, updates,
                   committed, failed>>

\* the poll loop sees writer_handle.is_finished()
ShutdownWriterFinished ==
    /\ sd = "stopping"
    /\ timeout(writer = "stopped") = "Ok"
    /\ sd' = "done"
    /\ UNCHANGED <<stream, task, cleaner, config, quota, persist_enabled, cache, write_tx, running, chan, writer, buffer,
                   pending_acks, acks, db, calls, restarted, updates,
                   committed, failed>>

\* the 10 s wait times out: writer_abort.abort(). The task is cancelled at its
\* select!, or inside flush_buffer's await (in_flush), where the blocking
\* transaction still commits but no ack is sent; its locals and the receiver
\* are dropped.
ShutdownAbortWriter(in_flush) ==
    /\ sd = "stopping"
    /\ timeout(writer = "stopped") = "Elapsed"
    /\ in_flush => buffer # <<>>
    /\ db' = IF in_flush THEN flush_batch(db, buffer, TRUE).db ELSE db
    /\ committed' = IF in_flush THEN committed \cup Ids(buffer) ELSE committed
    /\ acks' = Signal(acks, Range(pending_acks) \cup QueuedAcks(chan), "dropped")
    /\ writer' = "aborted"
    /\ buffer' = <<>>
    /\ pending_acks' = <<>>
    /\ chan' = <<>>
    /\ sd' = "done"
    /\ UNCHANGED <<stream, task, cleaner, config, quota, persist_enabled, cache, write_tx, running, calls,
                   restarted, updates, failed>>

\* ---------------------------------------------------------------- restart
\* The process ends (exit or crash) and a new Storage is built on the same
\* database file: what was committed stays, everything in memory starts anew,
\* and the calls that had not returned are gone.
Restart ==
    /\ ~restarted
    /\ restarted' = TRUE
    /\ cache' = <<>>
    /\ write_tx' = IF persist_enabled THEN "open" ELSE "absent"
    /\ running' = TRUE
    /\ chan' = <<>>
    /\ writer' = IF persist_enabled THEN "loop" ELSE "absent"
    /\ buffer' = <<>>
    /\ pending_acks' = <<>>
    /\ acks' = [c \in CallIds |-> IF calls[c].pc = "done" THEN acks[c] ELSE "unset"]
    /\ calls' = [c \in CallIds |->
                    IF calls[c].pc = "done" THEN calls[c]
                    ELSE [calls[c] EXCEPT !.pc = "gone"]]
    /\ sd' = "idle"
    /\ updates' = [a \in Agents |-> <<>>]
    /\ cleaner' = [IdleCleaner EXCEPT !.runs = cleaner.runs]
    /\ task' = IF task.pc = "absent" THEN NoTask
               ELSE [SpawnedTask(task.config.max_records_per_agent,
                                 task.config.retention_days)
                        EXCEPT !.passes = task.passes]
    /\ UNCHANGED <<config, quota, persist_enabled, db, committed, failed, stream>>

\* ------------------------------------------------------------------ bounds
\* the cleanup operations a run starts, the keys StoreSpec makes, and the
\* save calls, max_records_per_agent and cutoff of CleanSpec
CleanupRuns == 2
StoreKeys == 3
CleanCalls == 2
CleanKeep == 1
CleanCutoff == 2
\* the passes (execute_cleanup calls) a cleanup task makes
CleanupPasses == 1

\* ------------------------------------------------- the cleanup, step by step
StorageVars ==
    <<config, quota, persist_enabled, cache, write_tx, running, chan, writer, buffer,
      pending_acks, acks, calls, sd, restarted, updates, committed, failed, task>>

PipelineVars == <<StorageVars, stream>>

CleanerReady ==
    /\ persist_enabled
    /\ cleaner.pc \in {"idle", "done"}
    /\ cleaner.runs < CleanupRuns

\* delete_old_records(agent_id, keep_count): its read transactions
DeleteOldScan(agent_id, keep_count) ==
    /\ CleanerReady
    /\ LET scan == ScanOldRecords(db, agent_id, keep_count)
           started == [IdleCleaner EXCEPT !.op = "delete_old_records",
                                          !.agent_id = agent_id,
                                          !.keep_count = keep_count,
                                          !.runs = cleaner.runs + 1,
                                          !.pre = db]
       IN  cleaner' = IF scan.skip
                      THEN [started EXCEPT !.pc = "done"]
                      ELSE [started EXCEPT !.pc = "remove", !.keys = scan.keys,
                                           !.latest = scan.latest]
    /\ UNCHANGED <<db, PipelineVars>>

\* delete_old_records: the write transaction removing keys_to_delete
DeleteOldRemove ==
    /\ cleaner.op = "delete_old_records"
    /\ cleaner.pc = "remove"
    /\ db' = RemoveKeys(db, cleaner.keys)
    /\ cleaner' = [cleaner EXCEPT !.pc = "index",
                                  !.total_deleted = @ + Cardinality(cleaner.keys)]
    /\ UNCHANGED PipelineVars

\* delete_old_records: the write transaction on agent_latest, and the return
DeleteOldIndex ==
    /\ cleaner.op = "delete_old_records"
    /\ cleaner.pc = "index"
    /\ db' = SetLatest(db, cleaner.agent_id, cleaner.latest)
    /\ cleaner' = [cleaner EXCEPT !.pc = "done", !.ret = cleaner.total_deleted]
    /\ UNCHANGED PipelineVars

\* delete_before_timestamp(before_ts): the read of the agent ids
DeleteBeforeAgents(before_ts) ==
    /\ CleanerReady
    /\ LET agent_ids == SortAgents(DOMAIN db.agent_latest)
           started == [IdleCleaner EXCEPT !.op = "delete_before_timestamp",
                                          !.before_ts = before_ts,
                                          !.agent_ids = agent_ids,
                                          !.runs = cleaner.runs + 1,
                                          !.pre = db]
       IN  cleaner' = [started EXCEPT !.pc = IF agent_ids = <<>> THEN "done" ELSE "scan"]
    /\ UNCHANGED <<db, PipelineVars>>

\* delete_before_timestamp: the read transactions for the next agent
DeleteBeforeScan ==
    /\ cleaner.op = "delete_before_timestamp"
    /\ cleaner.pc = "scan"
    /\ LET agent_id == Head(cleaner.agent_ids)
           scan == ScanBefore(db, agent_id, cleaner.before_ts)
       IN  cleaner' = [cleaner EXCEPT !.agent_id = agent_id,
                                      !.keys = scan.keys,
                                      !.latest = scan.latest,
                                      !.pc = IF scan.keys = {} THEN "index" ELSE "remove"]
    /\ UNCHANGED <<db, PipelineVars>>

\* delete_before_timestamp: the write transaction removing keys_to_delete
DeleteBeforeRemove ==
    /\ cleaner.op = "delete_before_timestamp"
    /\ cleaner.pc = "remove"
    /\ db' = RemoveKeys(db, cleaner.keys)
    /\ cleaner' = [cleaner EXCEPT !.pc = "index",
                                  !.total_deleted = @ + Cardinality(cleaner.keys)]
    /\ UNCHANGED PipelineVars

\* delete_before_timestamp: the write transaction on agent_latest for the
\* agent, then the next agent or the return
DeleteBeforeIndex ==
    /\ cleaner.op = "delete_before_timestamp"
    /\ cleaner.pc = "index"
    /\ db' = SetLatest(db, cleaner.agent_id, cleaner.latest)
    /\ cleaner' = IF Tail(cleaner.agent_ids) = <<>>
                  THEN [cleaner EXCEPT !.agent_ids = <<>>, !.pc = "done",
                                       !.ret = cleaner.total_deleted]
                  ELSE [cleaner EXCEPT !.agent_ids = Tail(@), !.pc = "scan"]
    /\ UNCHANGED PipelineVars

\* ------------------------------------------- the store's operations, whole
\* PersistStorage::flush_batch called on the store
FlushBatch(batch, io_ok) ==
    /\ persist_enabled
    /\ cleaner.pc \in {"idle", "done"}
    /\ db.key_sequence + Len(batch) <= StoreKeys
    /\ db' = flush_batch(db, batch, io_ok).db
    /\ UNCHANGED <<stream, task, cleaner, PipelineVars>>

\* PersistStorage::delete_old_records, from its call to its return
DeleteOldRecords(agent_id, keep_count) ==
    /\ CleanerReady
    /\ LET r == delete_old_records(db, agent_id, keep_count)
       IN  /\ db' = r.db
           /\ cleaner' = [IdleCleaner EXCEPT !.op = "delete_old_records",
                                             !.agent_id = agent_id,
                                             !.keep_count = keep_count,
                                             !.runs = cleaner.runs + 1,
                                             !.pre = db,
                                             !.pc = "done",
                                             !.ret = r.ret]
    /\ UNCHANGED PipelineVars

\* PersistStorage::delete_before_timestamp, from its call to its return
DeleteBeforeTimestamp(before_ts) ==
    /\ CleanerReady
    /\ LET r == delete_before_timestamp(db, before_ts)
       IN  /\ db' = r.db
           /\ cleaner' = [IdleCleaner EXCEPT !.op = "delete_before_timestamp",
                                             !.before_ts = before_ts,
                                             !.runs = cleaner.runs + 1,
                                             !.pre = db,
                                             !.pc = "done",
                                             !.ret = r.ret]
    /\ UNCHANGED PipelineVars

\* ------------------------------------------------ cleanup.rs: CleanupTask
\* execute_cleanup up to its loop: get_all_agent_ids (io_ok: it succeeded),
\* with the return on its error and on an empty list; the task is back at its
\* select! after a return
execute_cleanup_begin_ExitOnError(t, d, io_ok) ==
    LET agent_ids == SortAgents(get_all_agent_ids(d))
    IN  IF ~io_ok THEN [t EXCEPT !.pc = "stopped", !.errors = TRUE, !.passes = @ + 1]
        ELSE IF agent_ids = <<>> THEN [t EXCEPT !.passes = @ + 1]
        ELSE [t EXCEPT !.pc = "count", !.agent_ids = agent_ids, !.passes = @ + 1]

execute_cleanup_begin(t, d, io_ok) ==
    LET agent_ids == SortAgents(get_all_agent_ids(d))
    IN  IF ~io_ok THEN [t EXCEPT !.errors = TRUE, !.passes = @ + 1]
        ELSE IF agent_ids = <<>> THEN [t EXCEPT !.passes = @ + 1]
        ELSE [t EXCEPT !.pc = "count", !.agent_ids = agent_ids, !.passes = @ + 1]

\* run: the ticker.tick() branch
CleanupTick(io_ok) ==
    /\ task.pc = "select"
    /\ task.passes < CleanupPasses
    /\ task' = IF ~task.running THEN [task EXCEPT !.pc = "stopped"]
               ELSE execute_cleanup_begin(task, db, io_ok)
    /\ UNCHANGED <<stream, cleaner, config, quota, persist_enabled, cache, write_tx, running, chan,
                   writer, buffer, pending_acks, acks, db, calls, sd, restarted,
                   updates, committed, failed>>

\* run: the check_interval.tick() branch leaving the loop
CleanupCheck ==
    /\ task.pc = "select"
    /\ ~task.running
    /\ task' = [task EXCEPT !.pc = "stopped"]
    /\ UNCHANGED <<stream, cleaner, config, quota, persist_enabled, cache, write_tx, running, chan,
                   writer, buffer, pending_acks, acks, db, calls, sd, restarted,
                   updates, committed, failed>>

\* execute_cleanup: one iteration of the loop over agent_ids, with its check
\* of the stop flag; a failed delete_old_records (io_ok false, nothing
\* written) is logged and the loop goes on
CleanupCountAgent(io_ok) ==
    /\ task.pc = "count"
    /\ IF ~task.running
       THEN /\ task' = [task EXCEPT !.pc = "select", !.agent_ids = <<>>]
            /\ UNCHANGED db
       ELSE LET r == delete_old_records(db, Head(task.agent_ids),
                                        task.config.max_records_per_agent)
                rest == Tail(task.agent_ids)
            IN  /\ db' = IF io_ok THEN r.db ELSE db
                /\ task' = [task EXCEPT
                               !.agent_ids = rest,
                               !.errors = @ \/ ~io_ok,
                               !.pc = IF rest # <<>> THEN "count"
                                      ELSE IF task.config.retention_days > 0 THEN "age"
                                      ELSE "select"]
    /\ UNCHANGED <<stream, cleaner, config, quota, persist_enabled, cache, write_tx, running, chan,
                   writer, buffer, pending_acks, acks, calls, sd, restarted, updates,
                   committed, failed>>

\* execute_cleanup: the age pass at wall-clock time now (seconds), then the
\* return; a failed delete_before_timestamp counts as 0 deleted
CleanupAge(now, io_ok) ==
    /\ task.pc = "age"
    /\ LET r == delete_before_timestamp(db, cutoff_ts(now, task.config.retention_days))
       IN  /\ db' = IF io_ok THEN r.db ELSE db
           /\ task' = [task EXCEPT
                          !.pc = "select",
                          !.errors = @ \/ ~io_ok,
                          !.late = @ \/ (~task.running /\ io_ok /\ r.ret > 0)]
    /\ UNCHANGED <<stream, cleaner, config, quota, persist_enabled, cache, write_tx, running, chan,
                   writer, buffer, pending_acks, acks, calls, sd, restarted, updates,
                   committed, failed>>

\* the configuration and the number of save calls of each specification
SpecCalls == 2
SpecCacheSize == 1
SpecBatchSize == 2
SpecCapacity == 1
CacheCalls == 5
CacheMaxSize == 2
HistoryCalls == 3
HistoryCacheSize == 2
RestartCalls == 2
LiveCalls == 2

\* the <<timestamp, payload>> of the samples HistorySpec saves
HistorySamples == {<<1, "p">>, <<1, "q">>, <<2, "p">>, <<3, "p">>}
\* the limits a history query is made with
Limits == 0..(quota + 2)

\* ---------------------------------------------------- the specifications
SaveCall(syncs, agents, timestamps, payloads) ==
    \E sync \in syncs, a \in agents, t \in timestamps, p \in payloads :
        SaveMetrics(sync, a, t, p) /\ UNCHANGED stream

CallStep ==
    \/ \E c \in CallIds : EnqueueReadTx(c)
    \/ \E c \in CallIds : EnqueueSend(c)
    \/ \E c \in CallIds : EnqueueAwaitAck(c)

WriterStep ==
    \/ \E io_ok \in BOOLEAN : WriterRecv(io_ok)
    \/ \E io_ok \in BOOLEAN : WriterRecvNone(io_ok)
    \/ \E io_ok \in BOOLEAN, io_ok2 \in BOOLEAN : WriterTick(io_ok, io_ok2)

ShutdownStep ==
    \/ ShutdownCloseChannel
    \/ ShutdownStopRunning
    \/ ShutdownWriterFinished
    \/ \E in_flush \in BOOLEAN : ShutdownAbortWriter(in_flush)

\* The storage in both modes: sync and async save calls of two agents, failing
\* flushes, and shutdown with its abort of the writer.
Init ==
    \E persist \in BOOLEAN :
        InitWith(persist, SpecCacheSize, SpecBatchSize, SpecCapacity, SpecCalls)

Next ==
    \/ SaveCall(BOOLEAN, Agents, {1}, {"p"})
    \/ CallStep
    \/ WriterStep
    \/ ShutdownStep

Spec == Init /\ [][Next]_vars

\* ------------------------------------------------------------------ C1
Returned(c) == c \in CallIds /\ calls[c].pc = "done"

HasRow(c) == \E r \in db.metrics : r.value = calls[c].metrics

\* C1: in persistence mode a save_sync call that returned Ok carried a sample
\* that a successful flush_batch committed: its row is in the metrics table.
C1_SyncOkIsCommitted ==
    \A c \in CallIds :
        (persist_enabled /\ calls[c].sync /\ Returned(c) /\ calls[c].result = "ok")
            => (c \in committed /\ HasRow(c))

\* a save_sync returned Ok after a failed flush of its batch was retried
C1_Witness ==
    \E c \in CallIds :
        /\ persist_enabled /\ calls[c].sync /\ Returned(c) /\ calls[c].result = "ok"
        /\ c \in failed

\* ------------------------------------------------------------------ C4
LastUpdateOf(agent_id) == Last(updates[agent_id])

\* C4: once a save call has returned, whatever became of its persistence,
\* latest(agent) is its sample until the next save for the agent.
C4_LatestIsLastSaved ==
    \A c \in CallIds :
        (Returned(c) /\ LastUpdateOf(calls[c].metrics.agent_id).id = c)
            => \A read_ok \in BOOLEAN :
                   get_agent_latest(cache, db, persist_enabled,
                                    calls[c].metrics.agent_id, read_ok)
                       = <<calls[c].metrics>>

\* the second save of an agent returned with an error and is the latest sample
C4_Witness ==
    \E c \in CallIds :
        /\ Returned(c) /\ calls[c].result = "err"
        /\ Len(updates[calls[c].metrics.agent_id]) >= 2
        /\ LastUpdateOf(calls[c].metrics.agent_id).id = c
        /\ CacheGetLatest(cache, calls[c].metrics.agent_id) = <<calls[c].metrics>>

\* ------------------------------------------------------------------ C9
\* C9 (as claimed): save_async never waits for queue capacity: a save_metrics
\* call that is at its send is never held up by a full channel.
C9_AsyncNeverWaits ==
    \A c \in CallIds :
        (~calls[c].sync /\ calls[c].pc = "send") => CanSend

\* ------------------------------------------------------------------ C10
\* C10 (as claimed): once a flush_batch has failed, the ack of every save_sync
\* call whose sample was in the failed batch holds the error.
C10_FailedFlushSignalsAcks ==
    \A c \in CallIds :
        (calls[c].sync /\ c \in failed) => acks[c] = "err"

\* ------------------------------------------------------------------ C11
\* the rows of the metrics table that hold the sample of call c
RowsOfCall(d, c) == {r \in d.metrics : r.value.id = c}

\* C11: a step in which flush_batch failed and the writer goes on leaves the
\* store as it was and the buffer with every sample of the failed batch, in
\* order; a step that commits commits everything the buffer retained, and
\* every committed sample has exactly one row.
C11_FailedFlushRetains ==
    [][/\ (failed' # failed /\ writer' = "loop") =>
              /\ db' = db
              /\ (failed' \ failed) \subseteq Ids(buffer')
              /\ Len(buffer') >= Len(buffer)
              /\ SubSeq(buffer', 1, Len(buffer)) = buffer
       /\ (committed' # committed) =>
              /\ Ids(buffer) \subseteq committed'
              /\ \A c \in committed' : Cardinality(RowsOfCall(db', c)) = 1
      ]_vars

\* a sample of a failed batch was committed by a later flush, together with a
\* sample received after the failure
C11_Witness ==
    \E c1 \in failed, c2 \in committed \ failed :
        /\ c1 \in committed
        /\ Cardinality(RowsOfCall(db, c1)) = 1
        /\ Cardinality(RowsOfCall(db, c2)) = 1

\* ------------------------------------------------------------------ C12
\* the number of elements of the sequence s that carry the sample of call c
Count(s, c) == Cardinality({i \in DOMAIN s : s[i].id = c})

\* C12: the sample of a save call was given to Cache::update once and is in
\* the ring cache at most once; it is at most once on the channel, in the
\* writer's buffer or in the metrics table, taken together.
C12_ExactlyOnce ==
    \A c \in CallIds :
        LET a == calls[c].metrics.agent_id
        IN  /\ Count(updates[a], c) = 1
            /\ Count(CacheEntry(cache, a), c) <= 1
            /\ Count([i \in DOMAIN chan |-> chan[i].metrics], c) + Count(buffer, c)
                   + Cardinality(RowsOfCall(db, c)) <= 1

\* a sample went through a failed flush, a retry and the shutdown, and has
\* one row
C12_Witness ==
    \E c \in failed :
        /\ sd = "done" /\ writer = "stopped"
        /\ Cardinality(RowsOfCall(db, c)) = 1

C20_ShutdownDrains ==
    (sd = "done" /\ writer = "stopped" /\ failed = {}) =>
        \A c \in CallIds :
            calls[c].at_close => (c \in committed /\ RowsOfCall(db, c) # {})

\* ------------------------------------------------------------- CacheSpec
\* The ring cache alone: a memory-only Storage under concurrent save calls.
CacheInit == InitWith(FALSE, CacheMaxSize, SpecBatchSize, SpecCapacity, CacheCalls)

CacheNext ==
    \/ SaveCall({FALSE}, Agents, Timestamps, {"p"})
    \/ \E c \in CallIds : EnqueueReadTx(c)

CacheSpec == CacheInit /\ [][CacheNext]_vars

\* ----------------------------------------------------------- HistorySpec
\* History queries in persistence mode: concurrent async saves of one agent in
\* every order of timestamps, with equal timestamps and equal samples, and the
\* writer committing them.
HistoryInit ==
    InitWith(TRUE, HistoryCacheSize, SpecBatchSize, SpecCapacity, HistoryCalls)

HistoryNext ==
    \/ \E x \in HistorySamples :
           SaveMetrics(FALSE, "a1", x[1], x[2]) /\ UNCHANGED stream
    \/ \E c \in CallIds : EnqueueReadTx(c)
    \/ \E c \in CallIds : EnqueueSend(c)
    \/ WriterRecv(TRUE)
    \/ WriterTick(TRUE, TRUE)

HistorySpec == HistoryInit /\ [][HistoryNext]_vars

\* ----------------------------------------------------------- RestartSpec
\* Persistence mode with one restart of the process at any moment.
RestartInit ==
    InitWith(TRUE, SpecCacheSize, SpecBatchSize, SpecCapacity, RestartCalls)

RestartNext ==
    \/ SaveCall(BOOLEAN, {"a1"}, {1}, Payloads)
    \/ CallStep
    \/ \E io_ok \in BOOLEAN : WriterRecv(io_ok)
    \/ \E io_ok \in BOOLEAN : WriterTick(io_ok, io_ok)
    \/ Restart

RestartSpec == RestartInit /\ [][RestartNext]_vars

\* -------------------------------------------------------------- LiveSpec
\* Persistence mode under the scheduling the runtime gives the writer task:
\* a request on the channel is received, and the batch timer keeps ticking
\* with flush_batch succeeding in the end.
LiveInit == InitWith(TRUE, SpecCacheSize, SpecBatchSize, SpecCapacity, LiveCalls)

LiveNext ==
    \/ SaveCall(BOOLEAN, {"a1"}, {1}, {"p"})
    \/ CallStep
    \/ WriterStep
    \/ ShutdownStep

LiveSpec ==
    /\ LiveInit
    /\ [][LiveNext]_vars
    /\ WF_vars(\E io_ok \in BOOLEAN : WriterRecv(io_ok))
    /\ WF_vars(WriterTick(TRUE, TRUE))

\* ------------------------------------------------------------- StoreSpec
\* The store alone, its operations run one at a time: flush_batch with
\* batches of up to two samples of two agents, delete_old_records and
\* delete_before_timestamp.
StoreSamples ==
    [id : {0}, agent_id : Agents, timestamp : Timestamps, payload : {"p"}]

StoreBatches ==
    {<<>>} \cup {<<m>> : m \in StoreSamples}
           \cup {<<m1, m2>> : m1 \in StoreSamples, m2 \in StoreSamples}

KeepCounts == {0, 1, 2}
Cutoffs == {1, 2, 3}

StoreInit == InitWith(TRUE, SpecCacheSize, SpecBatchSize, SpecCapacity, 0)

StoreNext ==
    \/ \E batch \in StoreBatches, io_ok \in BOOLEAN : FlushBatch(batch, io_ok)
    \/ \E a \in Agents, k \in KeepCounts : DeleteOldRecords(a, k)
    \/ \E t \in Cutoffs : DeleteBeforeTimestamp(t)

StoreSpec == StoreInit /\ [][StoreNext]_vars

\* ------------------------------------------------------------------ C15
AgentsWithRows(d) == {r.agent_id : r \in d.metrics}

MaxTimestamp(d, agent_id) ==
    CHOOSE t \in {r.timestamp : r \in {q \in d.metrics : q.agent_id = agent_id}} :
        \A r \in d.metrics : r.agent_id = agent_id => r.timestamp <= t

\* agent_latest is what a scan of metrics would rebuild
IndexIsRebuilt(d) ==
    /\ DOMAIN d.agent_latest = AgentsWithRows(d)
    /\ \A a \in AgentsWithRows(d) : d.agent_latest[a] = MaxTimestamp(d, a)

\* C15: after every sequence of flush_batch, delete_old_records and
\* delete_before_timestamp run one at a time, an agent has an agent_latest
\* entry exactly when it has a row, and the entry is the greatest timestamp
\* of its rows; a flush_batch keeps every entry, never lowers one, and raises
\* one only to a greater timestamp that the batch holds for the agent.
C15_LatestIsRebuildable ==
    /\ IndexIsRebuilt(db)
    /\ \A batch \in StoreBatches :
           LET d2 == flush_batch(db, batch, TRUE).db
           IN  /\ DOMAIN db.agent_latest \subseteq DOMAIN d2.agent_latest
               /\ \A a \in DOMAIN d2.agent_latest :
                      LET held == {batch[i].timestamp :
                                      i \in {j \in DOMAIN batch : batch[j].agent_id = a}}
                      IN  IF a \in DOMAIN db.agent_latest
                          THEN /\ d2.agent_latest[a] >= db.agent_latest[a]
                               /\ d2.agent_latest[a] > db.agent_latest[a]
                                      => d2.agent_latest[a] \in held
                               /\ d2.agent_latest[a] = db.agent_latest[a]
                                      => \A t \in held : t <= db.agent_latest[a]
                          ELSE d2.agent_latest[a] \in held

\* a cleanup removed every row of one agent and its entry with them, while
\* another agent keeps rows of two timestamps
C15_Witness ==
    /\ cleaner.pc = "done"
    /\ \E a \in DOMAIN cleaner.pre.agent_latest : a \notin DOMAIN db.agent_latest
    /\ \E b \in DOMAIN db.agent_latest :
           Cardinality({r.timestamp : r \in {q \in db.metrics : q.agent_id = b}}) = 2

CleanInit == InitWith(TRUE, SpecCacheSize, SpecBatchSize, SpecCapacity, CleanCalls)

CleanNext ==
    \/ SaveCall({FALSE}, {"a1"}, Timestamps, {"p"})
    \/ \E c \in CallIds : EnqueueReadTx(c)
    \/ \E c \in CallIds : EnqueueSend(c)
    \/ WriterRecv(TRUE)
    \/ WriterTick(TRUE, TRUE)
    \/ DeleteOldScan("a1", CleanKeep)
    \/ DeleteOldRemove
    \/ DeleteOldIndex
    \/ DeleteBeforeAgents(CleanCutoff)
    \/ DeleteBeforeScan
    \/ DeleteBeforeRemove
    \/ DeleteBeforeIndex
    \/ Restart

CleanSpec == CleanInit /\ [][CleanNext]_vars

\* ------------------------------------------------------------------ C14
\* C14 (as claimed): in every reachable state, every row of metrics has an
\* agent_latest entry for its agent that is at least the row's timestamp.
C14_RowsBelowLatest ==
    \A r \in db.metrics :
        /\ r.agent_id \in DOMAIN db.agent_latest
        /\ db.agent_latest[r.agent_id] >= r.timestamp

\* ------------------------------------------------------------------ C16
\* the last cleanup operation has returned and no key was made since it began
ReturnedUndisturbed(op) ==
    /\ cleaner.pc = "done"
    /\ cleaner.op = op
    /\ db.key_sequence = cleaner.pre.key_sequence

\* C16 (as claimed, for a delete_old_records(a, k) that no commit overlapped):
\* after it, a has min(prior_count, k) rows, the greatest in (timestamp, key)
\* order, the returned count is the number of rows removed, and
\* agent_latest[a] is the greatest remaining timestamp, or absent without rows.
C16_DeleteOldestPost ==
    ReturnedUndisturbed("delete_old_records") =>
        LET a == cleaner.agent_id
            prior == {r \in cleaner.pre.metrics : r.agent_id = a}
            now == {r \in db.metrics : r.agent_id = a}
        IN  /\ Cardinality(now) = Min(Cardinality(prior), cleaner.keep_count)
            /\ now \subseteq prior
            /\ \A r \in now, q \in prior \ now : KeyLess(KeyOf(q), KeyOf(r))
            /\ cleaner.ret = Cardinality(prior) - Cardinality(now)
            /\ IF now = {}
               THEN a \notin DOMAIN db.agent_latest
               ELSE /\ a \in DOMAIN db.agent_latest
                    /\ db.agent_latest[a] = MaxTimestamp(db, a)

\* ------------------------------------------------------------------ C17
\* C17 (as claimed, for a delete_before_timestamp(t) that no commit
\* overlapped): after it no row has a timestamp below t, every row at or above
\* t is still there, the returned count is the number of rows removed, and
\* agent_latest is what the remaining rows give.
C17_DeleteBeforePost ==
    ReturnedUndisturbed("delete_before_timestamp") =>
        /\ \A r \in db.metrics : r.timestamp >= cleaner.before_ts
        /\ \A r \in cleaner.pre.metrics :
               r.timestamp >= cleaner.before_ts => r \in db.metrics
        /\ cleaner.ret = Cardinality(cleaner.pre.metrics) - Cardinality(db.metrics)
        /\ IndexIsRebuilt(db)

\* ------------------------------------------------------------------ C19
AgentRank(a) == CHOOSE i \in DOMAIN AgentOrder : AgentOrder[i] = a

\* C19 (as claimed): list_agents, the store's read succeeding, is sorted and
\* without duplicates, and holds exactly the agents with a sample in the ring
\* cache or a row in the store.
C19_ListAgentsIsExact ==
    LET l == get_all_agents(cache, db, persist_enabled, TRUE)
    IN  /\ \A i \in 1..(Len(l) - 1) : AgentRank(l[i]) < AgentRank(l[i + 1])
        /\ Range(l) = {a \in Agents : CacheEntry(cache, a) # <<>>}
                          \cup (IF persist_enabled THEN AgentsWithRows(db) ELSE {})

\* ------------------------------------------------------------------ C5
\* C5: every agent's deque holds exactly the last min(updates, max_size)
\* samples given to update, in the order they were given, and an agent is in
\* the map exactly when an update was made for it.
C5_RingCacheBound ==
    \A a \in Agents :
        LET log == updates[a]
            entry == CacheEntry(cache, a)
            k == Min(Len(log), config.cache_size_per_agent)
        IN  /\ (a \in DOMAIN cache) <=> (log # <<>>)
            /\ Len(entry) = k
            /\ \A i \in 1..k : entry[i] = log[Len(log) - k + i]

\* an agent's deque has evicted twice while a save call of another agent is
\* still under way
C5_Witness ==
    \E a \in Agents, c \in CallIds :
        /\ Len(updates[a]) >= config.cache_size_per_agent + 2
        /\ Len(cache[a]) = config.cache_size_per_agent
        /\ calls[c].pc # "done"
        /\ calls[c].metrics.agent_id # a

\* ------------------------------------------------------------------ C6
\* C6: get_history gives the last min(limit, len) samples of the deque, oldest
\* first, and nothing for an unknown agent or a limit of 0; get_latest gives
\* the back of the deque, or nothing.
C6_CacheReads ==
    \A a \in Agents, limit \in Limits :
        LET h == CacheGetHistory(cache, a, limit)
            entry == CacheEntry(cache, a)
            k == Min(limit, Len(entry))
            l == CacheGetLatest(cache, a)
        IN  /\ Len(h) = k
            /\ \A i \in 1..k : h[i] = entry[Len(entry) - k + i]
            /\ (a \notin DOMAIN cache \/ limit = 0) => h = <<>>
            /\ IF entry = <<>> THEN l = <<>> ELSE l = <<entry[Len(entry)]>>

\* a limit smaller than a full deque cuts the history, next to an unknown agent
C6_Witness ==
    \E a \in Agents, b \in Agents :
        /\ a \in DOMAIN cache
        /\ Len(cache[a]) = config.cache_size_per_agent
        /\ Len(CacheGetHistory(cache, a, 1)) = 1
        /\ CacheGetHistory(cache, a, 1)[1] = Last(updates[a])
        /\ b \notin DOMAIN cache

\* ------------------------------------------------------------------ C7
RowsOf(agent_id) == {r \in db.metrics : r.agent_id = agent_id}

\* every sample saved for the agent has its row
AllCommitted(agent_id) ==
    /\ updates[agent_id] # <<>>
    /\ \A i \in DOMAIN updates[agent_id] :
           \E r \in db.metrics : r.value = updates[agent_id][i]
    /\ Cardinality(RowsOf(agent_id)) = Len(updates[agent_id])

\* h is min(limit, total) of the saved samples, each once, in ascending
\* timestamp order, and no saved sample left out has a greater timestamp
IsLatestOfSaved(h, agent_id, limit) ==
    LET log == updates[agent_id]
    IN  /\ Len(h) = Min(limit, Len(log))
        /\ \A i \in DOMAIN h : h[i] \in Range(log)
        /\ \A i, j \in DOMAIN h : i # j => h[i] # h[j]
        /\ \A i \in 1..(Len(h) - 1) : h[i].timestamp <= h[i + 1].timestamp
        /\ \A m \in Range(log) \ Range(h) :
               \A i \in DOMAIN h : m.timestamp <= h[i].timestamp

StrictlyIncreasing(log) ==
    \A i \in 1..(Len(log) - 1) : log[i].timestamp < log[i + 1].timestamp

\* C7 (as claimed): once every saved sample of an agent is committed,
\* history(agent, limit > 0) is exactly the min(limit, total) saved samples
\* with the greatest timestamps, in ascending timestamp order.
C7_HistoryIsLatestOfSaved ==
    \A a \in Agents, limit \in Limits \ {0} :
        AllCommitted(a) =>
            IsLatestOfSaved(get_agent_history(cache, db, persist_enabled, a, limit, TRUE),
                            a, limit)

\* C7 (amended): the same, for an agent whose samples were saved with strictly
\* increasing timestamps.
C7_HistoryOfIncreasingSaves ==
    \A a \in Agents, limit \in Limits \ {0} :
        (AllCommitted(a) /\ StrictlyIncreasing(updates[a])) =>
            IsLatestOfSaved(get_agent_history(cache, db, persist_enabled, a, limit, TRUE),
                            a, limit)

\* more samples than the ring cache holds are committed, and a history longer
\* than the cache comes from the merge with the store
C7_Witness ==
    \E a \in Agents :
        /\ AllCommitted(a) /\ StrictlyIncreasing(updates[a])
        /\ Len(updates[a]) > config.cache_size_per_agent
        /\ Len(cache[a]) = config.cache_size_per_agent
        /\ Len(get_agent_history(cache, db, persist_enabled, a, Len(updates[a]), TRUE))
               = Len(updates[a])

\* ------------------------------------------------------------------ C8
\* C8 (as claimed): history never has more than limit entries and never gives
\* a sample more often than it was saved.
C8_HistoryHasNoDuplicates ==
    \A a \in Agents, limit \in Limits :
        LET h == get_agent_history(cache, db, persist_enabled, a, limit, TRUE)
        IN  /\ Len(h) <= limit
            /\ \A i \in DOMAIN h :
                   Cardinality({j \in DOMAIN h : SameMetrics(h[j], h[i])})
                       <= Cardinality({k \in DOMAIN updates[a] :
                                          SameMetrics(updates[a][k], h[i])})

\* ------------------------------------------------------------------ C2
Includes(list, m) == \E i \in DOMAIN list : SameMetrics(list[i], m)

\* C2: after the restart a committed sample is in latest_n(agent, limit) for
\* every limit that is at least the agent's row count, and in history(agent,
\* limit) for such a limit while the new ring cache holds nothing of the agent
\* (and for every limit that also covers what the ring cache holds).
C2_CommittedSurvivesRestart ==
    \A c \in CallIds :
        (restarted /\ c \in committed) =>
            LET m == calls[c].metrics
                a == m.agent_id
                rows == Cardinality(RowsOf(a))
            IN  \A limit \in Limits :
                    limit >= rows =>
                        /\ limit > 0
                        /\ Includes(query_latest_by_agent(db, a, limit), m)
                        /\ (limit >= rows + Len(CacheEntry(cache, a)))
                               => Includes(get_agent_history(cache, db, persist_enabled,
                                                             a, limit, TRUE), m)

\* two samples of one timestamp were committed before the restart, and the
\* history of the restarted process, its ring cache empty, has both
C2_Witness ==
    /\ restarted
    /\ cache = <<>>
    /\ \E c1, c2 \in CallIds :
          /\ c1 # c2 /\ {c1, c2} \subseteq committed
          /\ ~SameMetrics(calls[c1].metrics, calls[c2].metrics)
          /\ Len(get_agent_history(cache, db, persist_enabled,
                                   calls[c1].metrics.agent_id, 2, TRUE)) = 2

\* ------------------------------------------------------------------ C3
LiveIds == 1..LiveCalls

OnChannel(c) == \E i \in DOMAIN chan : chan[i].metrics.id = c

\* C3: while no shutdown is under way, a sample placed on the write channel
\* is committed in the end, also when fewer than batch_size samples arrive.
C3_QueuedIsCommitted ==
    \A c \in LiveIds : OnChannel(c) ~> (c \in committed \/ sd # "idle")

\* the timeout flush committed a buffer that never reached batch_size
C3_Witness ==
    /\ sd = "idle"
    /\ committed # {}
    /\ Len(calls) < config.batch_size

\* ------------------------------------------------------------- ShutSpec
\* The storage with its cleanup task: save calls, the writer with failing
\* flushes, the cleanup passes with failing store operations, and shutdown
\* with both of its bounded waits.
ShutCalls == 2
ShutMaxRecords == 1
ShutRetention == 1
\* the wall clock (seconds) of the age pass: the cutoff is above every sample
ShutNow == SecondsPerDay + 2

ShutInit ==
    \E persist \in BOOLEAN, enable_cleanup \in BOOLEAN :
        InitStorage(persist, SpecCacheSize, SpecBatchSize, SpecCapacity, ShutCalls,
                    enable_cleanup, ShutMaxRecords, ShutRetention)

TaskStep ==
    \/ \E io_ok \in BOOLEAN : CleanupTick(io_ok)
    \/ CleanupCheck
    \/ \E io_ok \in BOOLEAN : CleanupCountAgent(io_ok)
    \/ \E io_ok \in BOOLEAN : CleanupAge(ShutNow, io_ok)

ShutdownCleanerStep ==
    \/ ShutdownStopCleaner
    \/ ShutdownCleanerFinished
    \/ \E in_op \in BOOLEAN : ShutdownAbortCleaner(in_op, ShutNow)

ShutNext ==
    \/ SaveCall(BOOLEAN, {"a1"}, {1}, {"p"})
    \/ CallStep
    \/ WriterStep
    \/ TaskStep
    \/ ShutdownCleanerStep
    \/ ShutdownStep

ShutSpec == ShutInit /\ [][ShutNext]_vars

\* C21: shutdown clears the cleaner's flag and has the cleaner finished or
\* aborted before it takes the channel's sender; the writer is aborted only
\* with the sender taken, and nothing is queued once the writer is aborted.
C21_ShutdownOrder ==
    /\ write_tx = "taken" =>
           /\ task.pc \in {"absent", "stopped", "aborted"}
           /\ ~task.running
    /\ sd = "cleaner" => write_tx = "open" /\ ~task.running
    /\ writer = "aborted" => write_tx = "taken" /\ chan = <<>>

\* the cleaner was stopped or aborted, the writer was aborted, and a call that
\* came after it was refused
C21_Witness ==
    /\ writer = "aborted"
    /\ task.pc \in {"stopped", "aborted"}
    /\ \E c \in CallIds :
           /\ calls[c].pc = "done"
           /\ calls[c].result = "err"
           /\ ~calls[c].enqueued

\* --------------------------------------------------------- ShutLiveSpec
\* ShutSpec with one save call, and shutdown going on once it has been called:
\* each of its awaits (the two bounded waits, the two write locks) ends.
ShutLiveCalls == 1

ShutLiveInit ==
    \E persist \in BOOLEAN, enable_cleanup \in BOOLEAN :
        InitStorage(persist, SpecCacheSize, SpecBatchSize, SpecCapacity,
                    ShutLiveCalls, enable_cleanup, ShutMaxRecords, ShutRetention)

\* a step of a shutdown that has been called
ShutdownGoesOn ==
    /\ sd # "idle"
    /\ (ShutdownCleanerStep \/ ShutdownStep)

ShutLiveSpec ==
    /\ ShutLiveInit
    /\ [][ShutNext]_vars
    /\ WF_vars(ShutdownGoesOn)

\* C22: a shutdown that has been called returns (Ok is its only result), with
\* or without a store, whether the cleaner and the writer finish within the
\* bounded waits or are aborted.
C22_ShutdownReturns == (sd # "idle") ~> (sd = "done")

\* shutdown has returned after aborting both tasks
C22_Witness ==
    /\ sd = "done"
    /\ task.pc = "aborted"
    /\ writer = "aborted"

\* C23: a save_sync call whose sample was queued (on the channel or in the
\* writer's buffer) when shutdown took the sender, once it has returned, has
\* returned Ok if its sample was committed and an error otherwise.
C23_WaitingCallsReturn ==
    \A c \in CallIds :
        (calls[c].sync /\ calls[c].at_close /\ calls[c].pc = "done") =>
            (calls[c].result = "ok" <=> c \in committed)

\* C24: without a store there is no writer, no channel, no cleanup task and
\* nothing is ever written; every save call returns Ok at its first step after
\* the cache update; latest, history and the agent list are those of the ring
\* cache, the history never longer than cache_size_per_agent.
C24_MemoryOnly ==
    ~persist_enabled =>
        /\ writer = "absent" /\ write_tx = "absent" /\ task.pc = "absent"
        /\ db = EmptyDb /\ chan = <<>> /\ buffer = <<>>
        /\ \A c \in CallIds :
               /\ calls[c].pc \in {"enqueue", "done"}
               /\ calls[c].pc = "done" => calls[c].result = "ok"
        /\ \A read_ok \in BOOLEAN :
               /\ get_all_agents(cache, db, persist_enabled, read_ok)
                      = SortAgents({a \in Agents : updates[a] # <<>>})
               /\ \A a \in Agents :
                      /\ get_agent_latest(cache, db, persist_enabled, a, read_ok)
                             = LastN(updates[a], 1)
                      /\ \A limit \in Limits :
                             LET h == get_agent_history(cache, db, persist_enabled,
                                                        a, limit, read_ok)
                             IN  /\ h = LastN(updates[a],
                                              Min(limit, config.cache_size_per_agent))
                                 /\ Len(h) <= config.cache_size_per_agent

\* memory-only: a save_sync has returned Ok, an agent's deque has evicted, and
\* shutdown has returned
C24_Witness ==
    /\ ~persist_enabled
    /\ sd = "done"
    /\ \E c \in CallIds :
           calls[c].sync /\ calls[c].pc = "done" /\ calls[c].result = "ok"
    /\ \E a \in Agents : Len(updates[a]) > config.cache_size_per_agent

\* -------------------------------------------------------------- SerSpec
\* The write path with samples that cannot be serialized and a store whose
\* transactions all succeed.
SerCalls == 3

SerInit == InitWith(TRUE, SpecCacheSize, SpecBatchSize, SpecCapacity, SerCalls)

SerNext ==
    \/ SaveCall({TRUE}, {"a1"}, {1}, {"p", "bad"})
    \/ CallStep
    \/ WriterRecv(TRUE)
    \/ WriterTick(TRUE, TRUE)

SerSpec == SerInit /\ [][SerNext]_vars

\* C25: a sample that can be serialized is in no failed batch and its call
\* gets no error (only the sample that cannot be serialized is dropped and
\* refused).
C25_BadSampleIsDropped ==
    \A c \in CallIds :
        Serializable(calls[c].metrics) =>
            /\ c \notin failed
            /\ acks[c] \notin {"err", "dropped"}

\* C26: the writer leaves its loop only once shutdown has taken the sender,
\* and the cleanup task ends only once shutdown has cleared its flag: no
\* failed flush_batch, get_all_agent_ids, delete_old_records or
\* delete_before_timestamp ends either task.
C26_TasksSurviveErrors ==
    [][ /\ (writer = "loop" /\ writer' # "loop") => write_tx = "taken"
        /\ (task.pc \in {"select", "count", "age"}
                /\ task'.pc \in {"stopped", "aborted"}) => ~task.running
      ]_vars

\* a flush has failed and a store operation of the cleanup task has failed;
\* both tasks are still in their loops
C26_Witness ==
    /\ failed # {}
    /\ writer = "loop"
    /\ task.errors
    /\ task.pc \in {"select", "count", "age"}
    /\ sd = "idle"

\* C28: the cleanup task starts no deletion of an agent's rows, in the count
\* pass or in the age pass, once shutdown has cleared its stop flag.
C28_StopIsCooperative == ~task.late

\* -------------------------------------------------------------- AgeSpec
\* The store written by agents whose samples carry current_timestamp_ms(),
\* and one pass of the cleanup task with nothing written during the pass.
\* common::utils::current_timestamp_ms: as_millis()
MillisPerSecond == 1000

AgeMaxRecords == 2
AgeRetention == 1
\* the wall clock of the pass (seconds), and the sample timestamps
\* (milliseconds): three, two and one day before it, and the pass's instant
AgeNow == 3 * SecondsPerDay

AgeTimestamps == {d * SecondsPerDay * MillisPerSecond : d \in 0..3}

AgeInit ==
    InitStorage(TRUE, SpecCacheSize, SpecBatchSize, SpecCapacity, 0, TRUE,
                AgeMaxRecords, AgeRetention)

\* flush_batch of one sample, between the passes
AgeWrite(agent_id, timestamp) ==
    /\ task.pc = "select"
    /\ FlushBatch(<<[id |-> db.key_sequence + 1, agent_id |-> agent_id,
                     timestamp |-> timestamp, payload |-> "p"]>>, TRUE)

AgeNext ==
    \/ \E a \in Agents, t \in AgeTimestamps : AgeWrite(a, t)
    \/ CleanupTick(TRUE)
    \/ CleanupCountAgent(TRUE)
    \/ CleanupAge(AgeNow, TRUE)

AgeSpec == AgeInit /\ [][AgeNext]_vars

\* C27: when a pass with retention_days = d > 0 ends, no row is left whose
\* sample timestamp (milliseconds) is more than d days before the pass's
\* instant.
C27_NoRowOlderThanRetention ==
    [][ (task.pc = "age" /\ task'.pc = "select") =>
            \A r \in db'.metrics :
                r.timestamp >= (AgeNow - task.config.retention_days * SecondsPerDay)
                                   * MillisPerSecond
      ]_vars

\* -------------------------------------------------------------- KeySpec
\* The store with agent ids of which one is a prefix of the others and which
\* hold '-', '_', '.', ':', '/', '@', and with timestamps of both signs and
\* of different lengths: rows written one at a time and read, then one
\* delete_old_records.
KeyAgents == {"a", "ab", "a-b", "a_b", "a.b", "a:b", "a/b", "a@b"}
KeyTimestamps == {-2, -1, 9, 10}
KeyRows == 2
KeyDeletes == 1

KeyInit == InitWith(TRUE, SpecCacheSize, SpecBatchSize, SpecCapacity, 0)

\* flush_batch of one sample
KeyWrite(agent_id, timestamp) ==
    /\ db.key_sequence < KeyRows
    /\ cleaner.pc = "idle"
    /\ FlushBatch(<<[id |-> db.key_sequence + 1, agent_id |-> agent_id,
                     timestamp |-> timestamp, payload |-> "p"]>>, TRUE)

KeyNext ==
    \/ \E a \in KeyAgents, t \in KeyTimestamps : KeyWrite(a, t)
    \/ \E a \in KeyAgents, k \in {0, 1} :
           cleaner.runs < KeyDeletes /\ DeleteOldRecords(a, k)

KeySpec == KeyInit /\ [][KeyNext]_vars

\* ------------------------------------------------------------------ C29
\* the samples of agent_id in the store
SamplesOf(d, agent_id) == {r.value : r \in {q \in d.metrics : q.value.agent_id = agent_id}}

\* C29: for every agent a, get_latest_metrics and query_latest_by_agent
\* return samples of a only (all of them, for a limit that is large enough),
\* and a delete_old_records(a, k) that has returned, nothing being written
\* since, has removed rows of a only and left the agent_latest entry of
\* every other agent as it was.
C29_AgentIsolation ==
    /\ \A a \in KeyAgents :
           /\ Range(query_latest_by_agent(db, a, KeyRows)) = SamplesOf(db, a)
           /\ Range(get_latest_metrics(db, a)) \subseteq SamplesOf(db, a)
           /\ get_latest_metrics(db, a) = <<>> <=> SamplesOf(db, a) = {}
    /\ ReturnedUndisturbed("delete_old_records") =>
           \A b \in KeyAgents \ {cleaner.agent_id} :
               /\ {r \in db.metrics : r.value.agent_id = b}
                      = {r \in cleaner.pre.metrics : r.value.agent_id = b}
               /\ b \in DOMAIN db.agent_latest <=> b \in DOMAIN cleaner.pre.agent_latest
               /\ b \in DOMAIN db.agent_latest =>
                      db.agent_latest[b] = cleaner.pre.agent_latest[b]

\* delete_old_records("a", 0) has removed the row of "a" and the store holds
\* a row of an agent whose id starts with "a"
C29_Witness ==
    /\ ReturnedUndisturbed("delete_old_records")
    /\ cleaner.agent_id = "a"
    /\ cleaner.ret = 1
    /\ \E r \in db.metrics : r.agent_id = "a:b"

\* ------------------------------------------------------------------ C30
\* C30 (as claimed): of two rows of one agent, the key of the one is below the
\* key of the other exactly when its timestamp is smaller, or the timestamps
\* are equal and it was inserted first.
C30_KeyOrderIsTimestampOrder ==
    \A r \in db.metrics, q \in db.metrics :
        r.agent_id = q.agent_id =>
            (LexLess(KeyString(KeyOf(r)), KeyString(KeyOf(q)))
                <=> \/ r.timestamp < q.timestamp
                    \/ /\ r.timestamp = q.timestamp
                       /\ r.nonce < q.nonce)

\* ------------------------------------------------------------------ C31
\* C31 (as claimed): between the transaction that removes the last keys of an
\* agent and the update of the agent's agent_latest entry nothing else is
\* committed to the store: while the cleanup has removed keys and has not
\* written the entry, a step that is not the cleanup's leaves the store as it
\* is.
C31_IndexWithLastDeletes ==
    [][ (cleaner.pc = "index" /\ cleaner.keys # {} /\ cleaner' = cleaner)
            => db' = db ]_vars

\* ------------------------------------------------------------------ C32
\* C32: while the writer waits for its next event and no sample of its buffer
\* was in a flush that failed (its last flush attempt, if any, succeeded),
\* the buffer holds fewer than batch_size samples.
C32_FlushAtBatchSize ==
    (writer = "loop" /\ Ids(buffer) \cap failed = {})
        => Len(buffer) < config.batch_size

\* the writer waits with an empty buffer after batch_size samples were
\* committed and none failed
C32_Witness ==
    /\ writer = "loop"
    /\ buffer = <<>>
    /\ failed = {}
    /\ Cardinality(committed) >= config.batch_size

\* ------------------------------------------- lib.rs: ProbeServer::stream_metrics
\* the handler that ends its loop when save_metrics_sync fails
StreamSaved_BreakOnError ==
    /\ stream.pc = "wait"
    /\ calls[stream.call].pc = "done"
    /\ stream' = IF calls[stream.call].result = "err"
                 THEN [stream EXCEPT !.pc = "ended", !.end = "save", !.metrics = <<>>,
                                     !.results = Append(@, "err")]
                 ELSE [stream EXCEPT !.pc = "next", !.metrics = <<>>,
                                     !.results = Append(@, calls[stream.call].result)]
    /\ UNCHANGED <<db, cleaner, StorageVars>>

\* stream_metrics: tokio::spawn of the loop over the client's stream
StreamMetrics ==
    /\ stream.pc = "absent"
    /\ stream' = [stream EXCEPT !.pc = "next"]
    /\ UNCHANGED <<db, cleaner, StorageVars>>

\* stream.next() gives Ok(metrics): broadcast.send(metrics.clone()), its
\* result ignored
StreamRecvOk(agent_id, timestamp, payload) ==
    /\ stream.pc = "next"
    /\ Len(stream.broadcast) < quota
    /\ LET metrics == [agent_id |-> agent_id, timestamp |-> timestamp,
                       payload |-> payload]
       IN  stream' = [stream EXCEPT !.pc = "save", !.metrics = <<metrics>>,
                                    !.broadcast = Append(@, metrics)]
    /\ UNCHANGED <<db, cleaner, StorageVars>>

\* storage.save_metrics_sync(&metrics) is called
StreamSave ==
    /\ stream.pc = "save"
    /\ SaveMetrics(TRUE, stream.metrics[1].agent_id, stream.metrics[1].timestamp,
                   stream.metrics[1].payload)
    /\ stream' = [stream EXCEPT !.pc = "wait", !.call = Len(calls) + 1,
                                !.saved = Append(@, Len(calls) + 1)]

\* save_metrics_sync has returned: an Err is logged, and the loop goes on
StreamSaved ==
    /\ stream.pc = "wait"
    /\ calls[stream.call].pc = "done"
    /\ stream' = [stream EXCEPT !.pc = "next", !.metrics = <<>>,
                                !.results = Append(@, calls[stream.call].result)]
    /\ UNCHANGED <<db, cleaner, StorageVars>>

\* stream.next() gives Err(e): break
StreamRecvErr ==
    /\ stream.pc = "next"
    /\ stream' = [stream EXCEPT !.pc = "ended", !.end = "error"]
    /\ UNCHANGED <<db, cleaner, StorageVars>>

\* stream.next() gives None (the client has disconnected): the loop ends
StreamRecvNone ==
    /\ stream.pc = "next"
    /\ stream' = [stream EXCEPT !.pc = "ended", !.end = "disconnect"]
    /\ UNCHANGED <<db, cleaner, StorageVars>>

\* ------------------------------------------------------------ StreamSpec
\* One client stream of up to StreamItems samples of one agent handled
\* beside the writer, with failing flushes and shutdown.
StreamItems == 2

StreamInit ==
    \E persist \in BOOLEAN :
        InitWith(persist, SpecCacheSize, SpecBatchSize, SpecCapacity, StreamItems)

StreamStep ==
    \/ StreamMetrics
    \/ \E t \in Timestamps : StreamRecvOk("a1", t, "p")
    \/ StreamSave
    \/ StreamSaved
    \/ StreamRecvErr
    \/ StreamRecvNone

StreamNext ==
    \/ StreamStep
    \/ CallStep
    \/ WriterStep
    \/ ShutdownStep

StreamSpec == StreamInit /\ [][StreamNext]_vars

\* ------------------------------------------------------------------ C33
\* C33: the handler passes to save_metrics_sync the samples it has sent to the
\* broadcast channel, in that order and each after its send, and its loop
\* ends only when the client has disconnected or the stream has given an
\* error: never because a save failed.
C33_StreamSurvivesSaveError ==
    /\ Len(stream.saved) <= Len(stream.broadcast)
    /\ Len(stream.broadcast) - Len(stream.saved) = (IF stream.pc = "save" THEN 1 ELSE 0)
    /\ \A i \in DOMAIN stream.saved :
           LET m == calls[stream.saved[i]].metrics
           IN  /\ calls[stream.saved[i]].sync
               /\ [agent_id |-> m.agent_id, timestamp |-> m.timestamp,
                   payload |-> m.payload] = stream.broadcast[i]
    /\ stream.pc = "ended" => stream.end \in {"disconnect", "error"}

\* a save failed, a later sample was sent and saved, then the client
\* disconnected
C33_Witness ==
    /\ stream.pc = "ended"
    /\ stream.end = "disconnect"
    /\ Len(stream.results) = 2
    /\ stream.results[1] = "err"

\* ------------------------------------------------------------------ C34
\* the samples on the write channel, in the writer's buffer and in the store
Enqueued ==
    {chan[i].metrics : i \in DOMAIN chan} \cup Range(buffer)
        \cup {r.value : r \in db.metrics}

\* the place of sample m among the samples Cache::update was given for its
\* agent, 0 if it is not among them
UpdateIndex(m) ==
    LET u == updates[m.agent_id]
    IN  IF \E i \in DOMAIN u : u[i] = m
        THEN CHOOSE i \in DOMAIN u : u[i] = m
        ELSE 0

\* C34: every sample that is on the write channel, in the writer's buffer or
\* in the store was given to Cache::update, and the ring cache holds for its
\* agent that sample or one that was inserted after it.
C34_CacheBeforeQueue ==
    \A m \in Enqueued :
        LET entry == CacheEntry(cache, m.agent_id)
        IN  /\ UpdateIndex(m) > 0
            /\ entry # <<>>
            /\ UpdateIndex(Last(entry)) >= UpdateIndex(m)

\* a committed sample has left the ring cache, which holds a later one
C34_Witness ==
    \E r \in db.metrics :
        /\ CacheEntry(cache, r.agent_id) # <<>>
        /\ UpdateIndex(Last(CacheEntry(cache, r.agent_id))) > UpdateIndex(r.value)

\* ------------------------------------------------------------------ C35
\* the ids of the samples in the store in the order of their insertion, then
\* of those in the writer's buffer, then of those on the channel
PipelineOrder ==
    LET rows == db.metrics
        stored == [i \in 1..Cardinality(rows) |->
                      (CHOOSE r \in rows :
                           Cardinality({q \in rows : q.nonce < r.nonce}) = i - 1).value.id]
    IN  stored \o [i \in DOMAIN buffer |-> buffer[i].id]
               \o [i \in DOMAIN chan |-> chan[i].metrics.id]

\* C35 (as claimed): two samples of one agent that are both on their way to
\* the store, or in it, are there in the order in which they were inserted
\* into the ring cache (the order of their calls' cache updates).
C35_CacheOrderIsQueueOrder ==
    LET order == PipelineOrder
    IN  \A i \in DOMAIN order, j \in DOMAIN order :
            (i < j /\ calls[order[i]].metrics.agent_id = calls[order[j]].metrics.agent_id)
                => order[i] < order[j]

\* ------------------------------------------------------------------ C36
\* C36 (as claimed): for an agent whose samples are all committed, in the
\* order of their insertion into the ring cache, and all still in the ring
\* cache, Cache::get_latest and get_latest_metrics give the same sample.
C36_LatestSameInBothTiers ==
    \A a \in Agents :
        LET u == updates[a]
            rows == {r \in db.metrics : r.value.agent_id = a}
            cached == CacheGetLatest(cache, a)
            stored == get_latest_metrics(db, a)
        IN  (/\ u # <<>>
             /\ Ids(u) \subseteq committed
             /\ \A r \in rows, q \in rows :
                    r.value.id < q.value.id => r.nonce < q.nonce
             /\ Len(CacheEntry(cache, a)) = Len(u))
            => /\ cached # <<>>
               /\ stored # <<>>
               /\ SameMetrics(cached[1], stored[1])

\* ------------------------------------------------------------------ C37
\* C37: once shutdown has taken the sender in persistence mode, a save call
\* that begins inserts its sample into the ring cache, and its
\* enqueue_metrics, sync or async, ends with the queue-closed error and puts
\* nothing on the channel.
C37_SaveAfterClose ==
    [][ (persist_enabled /\ write_tx = "taken") =>
            /\ Len(calls') > Len(calls) =>
                   LET m == calls'[Len(calls')].metrics
                   IN  /\ CacheEntry(cache', m.agent_id) # <<>>
                       /\ Last(CacheEntry(cache', m.agent_id)) = m
                       /\ chan' = chan
            /\ \A c \in CallIds :
                   (calls[c].pc = "enqueue" /\ calls'[c] # calls[c]) =>
                       /\ calls'[c].pc = "done"
                       /\ calls'[c].result = "err"
                       /\ ~calls'[c].enqueued
                       /\ chan' = chan
      ]_vars

\* after the sender was taken a sync call and an async call have returned
\* the error without a send, their samples being in the ring cache
C37_Witness ==
    /\ persist_enabled
    /\ write_tx = "taken"
    /\ \E c \in CallIds, d \in CallIds :
           /\ calls[c].sync /\ ~calls[d].sync
           /\ \A x \in {c, d} :
                  /\ calls[x].pc = "done"
                  /\ calls[x].result = "err"
                  /\ ~calls[x].enqueued
                  /\ calls[x].metrics \in Range(updates[calls[x].metrics.agent_id])
           /\ Last(CacheEntry(cache, calls[d].metrics.agent_id)) \in
                  {calls[c].metrics, calls[d].metrics}


\* -------------------------------------------------------------- OpenSpec
\* Storage::with_config with every outcome of opening the store: no db_path,
\* a db_path whose PersistStorage::new fails, and one that opens; then save
\* calls, the writer and the cleanup task (where they were started), with no
\* shutdown.
OpenCalls == 2

persist_opened_IgnoreError(db_path, open_ok) == db_path

\* with_config: `if let Some(db_path)` and `match PersistStorage::new(db_path)`;
\* the Ok arm gives persist_enabled = true, the Err arm and the else branch
\* give (None, None, false, None, None, None)
persist_opened(db_path, open_ok) == db_path /\ open_ok

\* config.db_path: a path is configured; config.open_ok: what
\* PersistStorage::new returns for it
OpenInit ==
    \E db_path \in BOOLEAN, open_ok \in BOOLEAN, enable_cleanup \in BOOLEAN :
        /\ config = [cache_size_per_agent |-> SpecCacheSize,
                     batch_size |-> SpecBatchSize,
                     channel_capacity |-> SpecCapacity,
                     db_path |-> db_path, open_ok |-> open_ok,
                     enable_cleanup |-> enable_cleanup]
        /\ StartStorage(persist_opened(db_path, open_ok), OpenCalls,
                        enable_cleanup, ShutMaxRecords, ShutRetention)

OpenNext ==
    \/ SaveCall(BOOLEAN, {"a1"}, {1}, {"p"})
    \/ CallStep
    \/ \E io_ok \in BOOLEAN : WriterRecv(io_ok)
    \/ \E io_ok \in BOOLEAN, io_ok2 \in BOOLEAN : WriterTick(io_ok, io_ok2)
    \/ \E io_ok \in BOOLEAN : CleanupTick(io_ok)
    \/ \E io_ok \in BOOLEAN : CleanupCountAgent(io_ok)
    \/ \E io_ok \in BOOLEAN : CleanupAge(ShutNow, io_ok)

OpenSpec == OpenInit /\ [][OpenNext]_vars

\* C38: with a database path configured and the store failing to open, the
\* storage is memory-only: persistence is reported disabled, there is no
\* writer, no cleanup task and no store, and every sync save has returned Ok
\* with its sample given to the ring cache and nothing written or queued.
C38_OpenFailureIsMemoryOnly ==
    (config.db_path /\ ~config.open_ok) =>
        /\ ~persist_enabled
        /\ writer = "absent"
        /\ task.pc = "absent"
        /\ write_tx = "absent"
        /\ db = EmptyDb
        /\ chan = <<>>
        /\ buffer = <<>>
        /\ \A c \in DOMAIN calls :
               /\ calls[c].pc \in {"enqueue", "done"}
               /\ calls[c].pc = "done" => calls[c].result = "ok"
               /\ \E i \in DOMAIN updates[calls[c].metrics.agent_id] :
                      updates[calls[c].metrics.agent_id][i] = calls[c].metrics

C38_Witness ==
    /\ config.db_path
    /\ ~config.open_ok
    /\ config.enable_cleanup
    /\ \E c \in DOMAIN calls :
           calls[c].sync /\ calls[c].pc = "done" /\ calls[c].result = "ok"
    /\ cache # <<>>


\* ------------------------------------------------------------------ C39
\* the acks waiting in pending_acks are those of samples in the buffer
AcksInBuffer ==
    /\ Range(pending_acks) \subseteq Ids(buffer)
    /\ Len(pending_acks) <= Len(buffer)

\* an ack holds Ok only for a committed sample
OkIsCommitted == \A c \in DOMAIN acks : acks[c] = "ok" => c \in committed

\* a step that signals an ack Ok commits the whole buffer, and a step of the
\* writer that commits rows leaves the buffer and the pending acks empty
FlushStep ==
    /\ (\E c \in DOMAIN acks : acks[c] # "ok" /\ acks'[c] = "ok") =>
           /\ Ids(buffer) \subseteq committed'
           /\ Range(pending_acks) \subseteq committed'
           /\ \A c \in Range(pending_acks) : acks'[c] = "ok"
    /\ db'.metrics # db.metrics =>
           /\ buffer' = <<>>
           /\ pending_acks' = <<>>

\* C39: in every state of the writer each pending ack belongs to a sample in
\* the buffer and there are at most as many pending acks as buffered samples;
\* an ack is Ok only with the commit of the whole buffer; after a successful
\* flush the buffer and the pending acks are empty.
C39_AcksFollowBuffer ==
    /\ [](AcksInBuffer /\ OkIsCommitted)
    /\ [][FlushStep]_vars

\* a flush committed an async and a sync sample together and signalled the
\* ack; before it the buffer was longer than pending_acks
C39_Witness ==
    /\ \E c \in DOMAIN acks : acks[c] = "ok" /\ c \in committed
    /\ \E c \in committed : ~calls[c].sync
    /\ buffer = <<>>
    /\ pending_acks = <<>>
    /\ writer = "loop"
====
